---- MODULE Spec2Model ----
(***************************************************************************)
(* Model of the analytics engine of the Electohub backend (server.js, the  *)
(* JSON-file store variant): customer analytics (segmentCustomers,         *)
(* analyzeRetention), order analytics (groupOrdersByDate), the analytics   *)
(* dashboard (KPIs, generateTrendData), the admin dashboard stats, the     *)
(* real-time stats and the export (convertToCSV), over the four files of   *)
(* the store read through readData.                                        *)
(*                                                                         *)
(* Time is counted in whole hours since 2024-01-01T00:00 (a Monday); the   *)
(* server's local time zone is taken to be UTC, so that toISOString() and  *)
(* getFullYear()/getMonth() read the same calendar.  Money amounts are     *)
(* integers.  A JavaScript number that results from a division is kept as  *)
(* the fraction [num, den]: den = 0 encodes NaN (0/0) and Infinity (x/0).  *)
(***************************************************************************)
EXTENDS Integers, Sequences, FiniteSets, TLC

VARIABLES users, orders, products, categories, unreadable, now, response,
          requests, orderDocs, productDocs

vars == <<users, orders, products, categories, unreadable, now, response,
          requests, orderDocs, productDocs>>

(***************************************************************************)
(* Bounds of the model                                                     *)
(***************************************************************************)
MaxCustomers == 10   \* customers in the ranked (segmentation) snapshots
MaxUsers == 2        \* users in the timed snapshots
MaxOrders == 2       \* orders in the timed snapshots
MaxGroupOrders == 2  \* orders in the snapshots of the order analytics
MaxDashOrders == 2   \* orders in the snapshots of the dashboards
MaxDashUsers == 1    \* users in the snapshots of the dashboards
MaxRecencyUsers == 2   \* users in the snapshots on the recency thresholds
MaxRecencyOrders == 2  \* orders in the snapshots on the recency thresholds
MaxExportProducts == 2 \* products in the snapshots of the export
MaxExportUsers == 1    \* users in the snapshots of the export
MaxExportOrders == 2   \* orders in the snapshots of the export
MaxViews == 2          \* product views counted in the interleavings
MaxRequests == 3       \* concurrent register and login requests
MaxStoredProducts == 2 \* products stored by the admin routes
MaxUploadItems == 2    \* items of one bulk upload
MaxForecastUsers == 7  \* users of the snapshots of the drawn dashboards
MaxForecastProducts == 2
RandomDen == 2         \* results of Math.random() are multiples of 1 / RandomDen

(***************************************************************************)
(* Generic helpers                                                         *)
(***************************************************************************)
Range(s) == {s[i] : i \in 1..Len(s)}

RECURSIVE SumSeq(_)
SumSeq(s) == IF s = <<>> THEN 0 ELSE Head(s) + SumSeq(Tail(s))

Reverse(s) == [i \in 1..Len(s) |-> s[Len(s) + 1 - i]]

Min(S) == CHOOSE x \in S : \A y \in S : x <= y
Max(S) == CHOOSE x \in S : \A y \in S : x >= y

\* all sequences over S of length at most n
SeqUpTo(S, n) == UNION {[1..k -> S] : k \in 0..n}

(***************************************************************************)
(* JavaScript numbers                                                      *)
(***************************************************************************)
\* a / b
JsDiv(a, b) == [num |-> a, den |-> b]
JsNum(a) == [num |-> a, den |-> 1]
IsNaN(x) == x.den = 0 /\ x.num = 0
IsInfinite(x) == x.den = 0 /\ x.num # 0
IsFiniteNum(x) == x.den # 0
IsZero(x) == x.den # 0 /\ x.num = 0

\* Math.ceil(n * p / q) for integers n >= 0, p, q > 0
CeilFrac(n, p, q) == (n * p + q - 1) \div q

\* x <= y for two finite numbers (denominators are positive)
NumLeq(x, y) == x.num * y.den <= y.num * x.den

\* (a / b * 100).toFixed(1) for b >= 0, as a number of tenths over 10;
\* NaN when a = b = 0, Infinity when only b = 0
ToFixed1Pct(a, b) ==
    IF b = 0 THEN JsDiv(IF a = 0 THEN 0 ELSE 1, 0)
    ELSE IF a >= 0 THEN JsDiv((2000 * a + b) \div (2 * b), 10)
    ELSE JsDiv(0 - ((2000 * (0 - a) + b) \div (2 * b)), 10)

(***************************************************************************)
(* The calendar behind Date                                                *)
(***************************************************************************)
EpochYear == 2024
HoursPerDay == 24
DaysPerWeek == 7
EpochWeekDay == 1    \* 2024-01-01 is a Monday (getDay() = 1)

IsLeap(y) == (y % 4 = 0 /\ y % 100 # 0) \/ y % 400 = 0
DaysInYear(y) == IF IsLeap(y) THEN 366 ELSE 365

\* m is a JavaScript month, 0..11
DaysInMonth(y, m) ==
    IF m = 1 THEN (IF IsLeap(y) THEN 29 ELSE 28)
    ELSE IF m \in {3, 5, 8, 10} THEN 30 ELSE 31

RECURSIVE DaysBeforeYear(_)
DaysBeforeYear(y) ==
    IF y = EpochYear THEN 0
    ELSE IF y > EpochYear THEN DaysBeforeYear(y - 1) + DaysInYear(y - 1)
    ELSE DaysBeforeYear(y + 1) - DaysInYear(y)

RECURSIVE DaysBeforeMonth(_, _)
DaysBeforeMonth(y, m) ==
    IF m = 0 THEN 0 ELSE DaysBeforeMonth(y, m - 1) + DaysInMonth(y, m - 1)

\* MakeDay/MakeDate of ECMAScript: month and day may lie outside their range
MakeDate(y, m, d, h) ==
    LET yy == y + (m \div 12)
        mm == m % 12
    IN (DaysBeforeYear(yy) + DaysBeforeMonth(yy, mm) + (d - 1)) * HoursPerDay + h

DayIndex(t) == t \div HoursPerDay

RECURSIVE YearFrom(_, _)
YearFrom(y, d) ==
    IF d < DaysBeforeYear(y) THEN YearFrom(y - 1, d)
    ELSE IF d >= DaysBeforeYear(y + 1) THEN YearFrom(y + 1, d)
    ELSE y

RECURSIVE MonthFrom(_, _, _)
MonthFrom(y, m, d) ==
    IF d >= DaysBeforeMonth(y, m + 1) THEN MonthFrom(y, m + 1, d) ELSE m

\* the civil date <<year, month, day of month>> of every day of 2023..2028
CalendarDays == (0 - DaysInYear(EpochYear - 1))..(DaysBeforeYear(EpochYear + 5) - 1)
Civil ==
    [d \in CalendarDays |->
        LET y == YearFrom(EpochYear, d)
            m == MonthFrom(y, 0, d - DaysBeforeYear(y))
        IN <<y, m, d - DaysBeforeYear(y) - DaysBeforeMonth(y, m) + 1>>] @@ <<>>

getFullYear(t) == Civil[DayIndex(t)][1]
getMonth(t) == Civil[DayIndex(t)][2]
getDate(t) == Civil[DayIndex(t)][3]
getHours(t) == t % HoursPerDay
getDay(t) == (DayIndex(t) + EpochWeekDay) % DaysPerWeek

setDate(t, d) == MakeDate(getFullYear(t), getMonth(t), d, getHours(t))
setMonth(t, m) == MakeDate(getFullYear(t), m, getDate(t), getHours(t))
setFullYear(t, y) == MakeDate(y, getMonth(t), getDate(t), getHours(t))
setHoursZero(t) == MakeDate(getFullYear(t), getMonth(t), getDate(t), 0)

(***************************************************************************)
(* Array helpers                                                           *)
(***************************************************************************)
\* Array.prototype.slice(a, b) with 0 <= a, 0 <= b (indices are 0-based)
Slice(s, a, b) ==
    LET lo == IF a > Len(s) THEN Len(s) ELSE a
        hi == IF b > Len(s) THEN Len(s) ELSE b
    IN IF hi <= lo THEN <<>> ELSE [i \in 1..(hi - lo) |-> s[lo + i]]

\* the keys of an object filled in the order of s: first occurrences
RECURSIVE KeysInOrder(_)
KeysInOrder(s) ==
    IF s = <<>> THEN <<>>
    ELSE LET init == KeysInOrder(SubSeq(s, 1, Len(s) - 1))
             last == s[Len(s)]
         IN IF last \in Range(init) THEN init ELSE Append(init, last)

\* Array.prototype.sort((a, b) => val[b] - val[a]): descending and stable
RECURSIVE InsertDesc(_, _, _)
InsertDesc(sorted, x, val) ==
    IF sorted = <<>> THEN <<x>>
    ELSE IF val[Head(sorted)] >= val[x]
         THEN <<Head(sorted)>> \o InsertDesc(Tail(sorted), x, val)
         ELSE <<x>> \o sorted

RECURSIVE SortDesc(_, _)
SortDesc(s, val) ==
    IF s = <<>> THEN <<>>
    ELSE InsertDesc(SortDesc(SubSeq(s, 1, Len(s) - 1), val), s[Len(s)], val)

(***************************************************************************)
(* The store: users.json, orders.json, products.json, categories.json      *)
(*   user  = [id, createdAt, lastLogin]; lastLogin NoDate stands for null  *)
(*   order = [userId, total, status, createdAt, items]; userId 0 stands    *)
(*   for an order without userId, items is the number of line items        *)
(***************************************************************************)
NoUser == 0
NoDate == 0 - 1
Statuses == {"pending", "delivered"}

\* readData(fileName): the parsed content of the file, or [] when reading or
\* parsing throws; unreadable is the set of files for which it throws
readData(fileName) ==
    IF fileName \in unreadable THEN <<>>
    ELSE IF fileName = "users" THEN users
    ELSE IF fileName = "orders" THEN orders
    ELSE IF fileName = "products" THEN products
    ELSE categories

\* the files after an analytics request: no handler calls writeData, and the
\* in-place sorts of getRecentActivity act on the array parsed by readData
AnalyticsWritesReversedOrders ==
    /\ orders' = [i \in 1..Len(orders) |-> orders[Len(orders) + 1 - i]]
    /\ UNCHANGED <<users, products, categories>>
AnalyticsWritesNothing == UNCHANGED <<users, orders, products, categories>>

OrderDates(os) == {os[i].createdAt : i \in 1..Len(os)}
OrdersOf(os, uid) == SelectSeq(os, LAMBDA o : o.userId = uid)

(***************************************************************************)
(* GET /api/admin/analytics/customers                                      *)
(***************************************************************************)
DayHours(n) == n * HoursPerDay

\* customerSpending of segmentCustomers: userId -> sum of total
CustomerSpendingLastOrder(os) ==
    LET withUser == SelectSeq(os, LAMBDA o : o.userId # NoUser)
        ids == KeysInOrder([i \in 1..Len(withUser) |-> withUser[i].userId])
    IN [keys |-> ids,
        val |-> [u \in Range(ids) |->
                   LET mine == SelectSeq(withUser, LAMBDA o : o.userId = u)
                   IN mine[Len(mine)].total]]
CustomerSpending(os) ==
    LET withUser == SelectSeq(os, LAMBDA o : o.userId # NoUser)
        ids == KeysInOrder([i \in 1..Len(withUser) |-> withUser[i].userId])
    IN [keys |-> ids,
        val |-> [u \in Range(ids) |->
                   SumSeq([i \in 1..Len(withUser) |->
                             IF withUser[i].userId = u THEN withUser[i].total ELSE 0])]]

\* Math.ceil(sortedCustomers.length * 0.2); the double product rounds to the
\* exact fifth for every length up to 40 at least
highValueCountFloor(n) == n \div 5
highValueCount(n) == CeilFrac(n, 1, 5)
mediumValueCount(n) == CeilFrac(n, 3, 5)

\* the index at which lowValue starts: slice(highValueCount + mediumValueCount)
LowValueStartAtMedium(hi, mid) == mid
LowValueStart(hi, mid) == hi + mid

\* the date of orders.filter(o => o.userId === id).sort(newest first)[0]
LastOrderDate(os, uid) == Max(OrderDates(OrdersOf(os, uid)))

IsNewUser(u, t) == u.createdAt >= t - DayHours(30)
IsAtRiskFromSixty(os, u, t) ==
    /\ OrdersOf(os, u.id) # <<>>
    /\ LastOrderDate(os, u.id) <= t - DayHours(60)
    /\ LastOrderDate(os, u.id) >= t - DayHours(120)
IsAtRisk(os, u, t) ==
    /\ OrdersOf(os, u.id) # <<>>
    /\ LastOrderDate(os, u.id) < t - DayHours(60)
    /\ LastOrderDate(os, u.id) >= t - DayHours(120)
IsDormantUnlessRecent(os, u, t) ==
    /\ ~IsAtRisk(os, u, t)
    /\ \/ OrdersOf(os, u.id) = <<>>
       \/ LastOrderDate(os, u.id) < t - DayHours(120)
IsDormant(os, u, t) ==
    /\ OrdersOf(os, u.id) # <<>>
    /\ ~IsAtRisk(os, u, t)
    /\ LastOrderDate(os, u.id) < t - DayHours(120)

\* the _id of every user of a list
IdsOf(us) == [i \in 1..Len(us) |-> us[i].id]

segmentCustomers(us, os, t) ==
    LET spending == CustomerSpending(os)
        sortedCustomers == SortDesc(spending.keys, spending.val)
        n == Len(sortedCustomers)
        hi == highValueCount(n)
        mid == mediumValueCount(n)
    IN [highValue |-> Slice(sortedCustomers, 0, hi),
        mediumValue |-> Slice(sortedCustomers, hi, hi + mid),
        lowValue |-> Slice(sortedCustomers, LowValueStart(hi, mid), n),
        new |-> IdsOf(SelectSeq(us, LAMBDA u : IsNewUser(u, t))),
        atRisk |-> IdsOf(SelectSeq(us, LAMBDA u : IsAtRisk(os, u, t))),
        dormant |-> IdsOf(SelectSeq(us, LAMBDA u : IsDormant(os, u, t)))]

\* calculateCustomerLifetimeValue
calculateCustomerLifetimeValue(os) ==
    LET spending == CustomerSpending(os)
        n == Len(spending.keys)
    IN IF n = 0 THEN JsNum(0)
       ELSE JsDiv(SumSeq([i \in 1..n |-> spending.val[spending.keys[i]]]), n)

\* calculateChurnRate
calculateChurnRate(us, os, t) ==
    LET activeUsers == SelectSeq(us, LAMBDA u :
                         /\ OrdersOf(os, u.id) # <<>>
                         /\ LastOrderDate(os, u.id) >= t - DayHours(30))
        totalActive == Len(SelectSeq(us, LAMBDA u : u.createdAt >= t - DayHours(90)))
    IN IF totalActive = 0 THEN JsNum(0)
       ELSE ToFixed1Pct(totalActive - Len(activeUsers), totalActive)

\* the cohort key `${year}-${month}` of a join date
CohortKey(u) == <<getFullYear(u.createdAt), getMonth(u.createdAt) + 1>>

\* the date analyzeRetention takes for the first order: userOrders[0]
FirstOrderDate(os, uid) == OrdersOf(os, uid)[1].createdAt

MonthHours == DayHours(30)

\* Math.floor((firstOrderDate - joinDate) / (30 days))
MonthsSinceJoin(os, u) == (FirstOrderDate(os, u.id) - u.createdAt) \div MonthHours

\* if (monthsSinceJoin <= k) cohorts[cohortKey].month_k++
CountsTowardBand(k, monthsSinceJoin) == monthsSinceJoin = k
CountsToward(k, monthsSinceJoin) == monthsSinceJoin <= k

Horizons == {1, 2, 3, 6, 12}

\* the counter month_k of a cohort: one increment per user of the cohort
HorizonCount(us, os, key, k) ==
    Cardinality({i \in 1..Len(us) :
        /\ CohortKey(us[i]) = key
        /\ OrdersOf(os, us[i].id) # <<>>
        /\ CountsToward(k, MonthsSinceJoin(os, us[i]))})

\* cohorts[cohortKey].totalUsers: one increment per user of the cohort
CohortSizeAfterFirst(us, key) ==
    Cardinality({i \in 1..Len(us) : CohortKey(us[i]) = key}) - 1
CohortSize(us, key) == Cardinality({i \in 1..Len(us) : CohortKey(us[i]) = key})

analyzeRetention(us, os) ==
    LET keys == KeysInOrder([i \in 1..Len(us) |-> CohortKey(us[i])])
    IN [c \in 1..Len(keys) |->
          LET total == CohortSize(us, keys[c])
          IN [cohort |-> keys[c],
              totalUsers |-> total,
              pct |-> [k \in Horizons |->
                         ToFixed1Pct(HorizonCount(us, os, keys[c], k), total)]]]

\* the month delta used for every user that has an order (by user index)
RetentionDeltas(us, os) ==
    [i \in {j \in 1..Len(us) : OrdersOf(os, us[j].id) # <<>>} |->
        MonthsSinceJoin(os, us[i])]

GetCustomerAnalytics ==
    LET us == readData("users")
        os == readData("orders")
    IN /\ response' = [kind |-> "customers",
                       totalCustomers |-> Len(us),
                       newCustomers |-> Len(SelectSeq(us, LAMBDA u : IsNewUser(u, now))),
                       customerLifetimeValue |-> calculateCustomerLifetimeValue(os),
                       churnRate |-> calculateChurnRate(us, os, now),
                       segmentation |-> segmentCustomers(us, os, now),
                       retentionAnalysis |-> analyzeRetention(us, os),
                       monthsSinceJoin |-> RetentionDeltas(us, os)]
       /\ AnalyticsWritesNothing
       /\ UNCHANGED <<unreadable, now, requests, orderDocs, productDocs>>

(***************************************************************************)
(* GET /api/admin/analytics/orders                                         *)
(***************************************************************************)
\* characters of a group key: digits are 0..9
Dash == 0 - 1
CharT == 0 - 2
CharW == 0 - 3
UndefinedKey == <<0 - 9>>

\* decimal digits of n >= 0, most significant first
RECURSIVE Digits(_)
Digits(n) == IF n < 10 THEN <<n>> ELSE Append(Digits(n \div 10), n % 10)

Pad2(n) == <<n \div 10, n % 10>>

\* date.toISOString().slice(0, len) for len in {7, 10, 13}
IsoMonth(t) == Digits(getFullYear(t)) \o <<Dash>> \o Pad2(getMonth(t) + 1)
IsoDayWithoutDate(t) == IsoMonth(t) \o <<Dash>> \o Pad2(1)
IsoDay(t) == IsoMonth(t) \o <<Dash>> \o Pad2(getDate(t))
IsoHour(t) == IsoDay(t) \o <<CharT>> \o Pad2(getHours(t))

HoursPerWeek == DaysPerWeek * HoursPerDay

getWeekNumber(t) ==
    LET firstDayOfYear == MakeDate(getFullYear(t), 0, 1, 0)
    IN CeilFrac((t - firstDayOfYear) + (getDay(firstDayOfYear) + 1) * HoursPerDay,
                1, HoursPerWeek)

GroupBys == {"hour", "day", "week", "month"}

GroupKey(t, groupBy) ==
    IF groupBy = "hour" THEN IsoHour(t)
    ELSE IF groupBy = "day" THEN IsoDay(t)
    ELSE IF groupBy = "week"
         THEN Digits(getFullYear(t)) \o <<Dash, CharW>> \o Digits(getWeekNumber(t))
    ELSE IF groupBy = "month" THEN IsoMonth(t)
    ELSE UndefinedKey

\* a.localeCompare(b) < 0 on keys: the first differing character decides, a
\* proper prefix comes first
RECURSIVE KeyLess(_, _)
KeyLess(a, b) ==
    IF b = <<>> THEN FALSE
    ELSE IF a = <<>> THEN TRUE
    ELSE IF Head(a) # Head(b) THEN Head(a) < Head(b)
    ELSE KeyLess(Tail(a), Tail(b))

\* Array.prototype.sort((a, b) => a.date.localeCompare(b.date))
RECURSIVE InsertByDate(_, _)
InsertByDate(sorted, x) ==
    IF sorted = <<>> THEN <<x>>
    ELSE IF KeyLess(x.date, Head(sorted).date) THEN <<x>> \o sorted
    ELSE <<Head(sorted)>> \o InsertByDate(Tail(sorted), x)

RECURSIVE SortByDate(_)
SortByDate(s) ==
    IF s = <<>> THEN <<>>
    ELSE InsertByDate(SortByDate(SubSeq(s, 1, Len(s) - 1)), s[Len(s)])

\* groups[key].revenue += order.total || 0
GroupRevenueLast(members) ==
    IF members = <<>> THEN 0 ELSE members[Len(members)].total
GroupRevenue(members) == SumSeq([i \in 1..Len(members) |-> members[i].total])

groupOrdersByDate(os, groupBy) ==
    LET keys == KeysInOrder([i \in 1..Len(os) |-> GroupKey(os[i].createdAt, groupBy)])
        entry(key) ==
            LET members == SelectSeq(os, LAMBDA o : GroupKey(o.createdAt, groupBy) = key)
                n == Len(members)
                revenue == GroupRevenue(members)
                items == SumSeq([i \in 1..n |-> members[i].items])
            IN [date |-> key,
                orders |-> n,
                revenue |-> revenue,
                avgOrderValue |-> IF n > 0 THEN JsDiv(revenue, n) ELSE JsNum(0),
                itemsPerOrder |-> IF n > 0 THEN JsDiv(items, n) ELSE JsNum(0),
                uniqueCustomers |->
                    Cardinality({members[i].userId : i \in 1..n} \ {NoUser})]
    IN SortByDate([k \in 1..Len(keys) |-> entry(keys[k])])

InRange(t, start, end) == t >= start /\ t <= end

\* metrics.avgOrderValue: filteredOrders.length > 0 ? total / length : 0
MetricsAvgOrderValue(filtered) ==
    IF Len(filtered) > 0
    THEN JsDiv(SumSeq([i \in 1..Len(filtered) |-> filtered[i].total]), Len(filtered))
    ELSE JsNum(0)

GetOrderAnalytics(startDate, endDate, groupBy) ==
    LET start == IF startDate # NoDate THEN startDate ELSE now - DayHours(30)
        end == IF endDate # NoDate THEN endDate ELSE now
        filteredOrders == SelectSeq(readData("orders"),
                                    LAMBDA o : InRange(o.createdAt, start, end))
    IN /\ response' =
            [kind |-> "orders",
             groupedData |-> groupOrdersByDate(filteredOrders, groupBy),
             metrics |->
               [totalOrders |-> Len(filteredOrders),
                totalRevenue |-> SumSeq([i \in 1..Len(filteredOrders) |->
                                           filteredOrders[i].total]),
                avgOrderValue |-> MetricsAvgOrderValue(filteredOrders)],
             orders |-> Slice(filteredOrders, 0, 50),
             meta |-> [startDate |-> start, endDate |-> end, groupBy |-> groupBy]]
       /\ AnalyticsWritesNothing
       /\ UNCHANGED <<unreadable, now, requests, orderDocs, productDocs>>

(***************************************************************************)
(* GET /api/admin/analytics/dashboard                                      *)
(***************************************************************************)
IsDelivered(o) == o.status = "delivered"

calculateTotalRevenue(os, start, end) ==
    LET f == SelectSeq(os, LAMBDA o : InRange(o.createdAt, start, end) /\ IsDelivered(o))
    IN SumSeq([i \in 1..Len(f) |-> f[i].total])

calculateTotalOrders(os, start, end) ==
    Len(SelectSeq(os, LAMBDA o : InRange(o.createdAt, start, end)))

calculateAverageOrderValue(os, start, end) ==
    LET f == SelectSeq(os, LAMBDA o : InRange(o.createdAt, start, end) /\ IsDelivered(o))
    IN IF Len(f) = 0 THEN JsNum(0)
       ELSE JsDiv(SumSeq([i \in 1..Len(f) |-> f[i].total]), Len(f))

calculateActiveCustomers(us, start, end) ==
    Len(SelectSeq(us, LAMBDA u :
          u.lastLogin # NoDate /\ InRange(u.lastLogin, start, end)))

calculateNewCustomers(us, start, end) ==
    Len(SelectSeq(us, LAMBDA u : InRange(u.createdAt, start, end)))

\* the start of the range when the request gives no startDate
DefaultStart(period, t) ==
    IF period = "today" THEN setHoursZero(t)
    ELSE IF period = "week" THEN setDate(t, getDate(t) - 7)
    ELSE IF period = "month" THEN setMonth(t, getMonth(t) - 1)
    ELSE IF period = "quarter" THEN setMonth(t, getMonth(t) - 3)
    ELSE IF period = "year" THEN setFullYear(t, getFullYear(t) - 1)
    ELSE t

\* dataPoints of generateTrendData
DataPoints(period) ==
    IF period = "daily" THEN 30
    ELSE IF period = "weekly" THEN 12
    ELSE IF period = "monthly" THEN 12
    ELSE 4

\* pointStart of bucket i is PointAt(period, start, i), pointEnd is
\* PointAt(period, start, i + 1)
PointAt(period, start, i) ==
    IF period = "daily" THEN setDate(start, getDate(start) + i)
    ELSE IF period = "weekly" THEN setDate(start, getDate(start) + i * 7)
    ELSE IF period = "monthly" THEN setMonth(start, getMonth(start) + i)
    ELSE setMonth(start, getMonth(start) + i * 3)

\* the data points in the order of the pushes: i = dataPoints - 1 down to 0
generateTrendData(os, us, period, start, end) ==
    LET dataPoints == DataPoints(period)
    IN [k \in 1..dataPoints |->
          LET i == dataPoints - k
              pointStart == PointAt(period, start, i)
              pointEnd == PointAt(period, start, i + 1)
          IN [pointStart |-> pointStart,
              pointEnd |-> pointEnd,
              revenue |-> calculateTotalRevenue(os, pointStart, pointEnd),
              orders |-> calculateTotalOrders(os, pointStart, pointEnd),
              customers |-> calculateNewCustomers(us, pointStart, pointEnd)]]

\* a / b in lowest terms
RECURSIVE Gcd(_, _)
Gcd(a, b) == IF b = 0 THEN a ELSE Gcd(b, a % b)
Reduce(x) ==
    IF x.den = 0 THEN x
    ELSE LET g == Gcd(IF x.num < 0 THEN 0 - x.num ELSE x.num, x.den)
         IN JsDiv(x.num \div g, x.den \div g)

\* x * y, and Math.pow(x, k) for k >= 1
Mul(x, y) == Reduce(JsDiv(x.num * y.num, x.den * y.den))
RECURSIVE Pow(_, _)
Pow(x, k) == IF k = 1 THEN Reduce(x) ELSE Mul(x, Pow(x, k - 1))

\* Math.random(): a result is draw / RandomDen with draw < RandomDen.  In
\* the forecast loop the draw RandomDen stands for the largest result below
\* 1, for which 1 + Math.random() * 0.1 is rounded to the double 1.1.  rnd
\* holds the results of one request: base for every call outside the
\* forecast loop, growth[i] for the call of iteration i of that loop.
BaseDraws == 0..(RandomDen - 1)
GrowthDraws == 0..RandomDen
RandomResults == [base : BaseDraws, growth : [1..3 -> GrowthDraws]]
NoVariation == [base |-> 0, growth |-> <<0, 0, 0>>]

\* Math.floor(Math.random() * scale)
RandomBelow(draw, scale) == (draw * scale) \div RandomDen

\* the segments of generateSegmentationData: name and size in percent
SegmentSizes == <<<<"High Value", 15>>, <<"Medium Value", 25>>, <<"Low Value", 35>>,
                  <<"New Customers", 10>>, <<"At Risk", 8>>, <<"Dormant", 7>>>>

\* Math.floor(users.length * segment.size): the double product has the floor
\* of the exact one for every length below 60
generateSegmentationData(us, rnd) ==
    [i \in 1..Len(SegmentSizes) |->
        [name |-> SegmentSizes[i][1],
         count |-> (Len(us) * SegmentSizes[i][2]) \div 100,
         avgOrderValue |-> RandomBelow(rnd.base, 500) + 50,
         frequency |-> RandomBelow(rnd.base, 10) + 1]]

\* const growth = 1 + (Math.random() * 0.1)
GrowthUpToFifth(draw) == JsDiv(5 * RandomDen + draw, 5 * RandomDen)
Growth(draw) == JsDiv(10 * RandomDen + draw, 10 * RandomDen)

generateForecastData(rnd) ==
    LET historical == [i \in 1..6 |->
                         Reduce(JsDiv(20000 * RandomDen + rnd.base * 5000, RandomDen))]
        lastValue == historical[Len(historical)]
        forecast == [i \in 1..3 |-> Mul(lastValue, Pow(Growth(rnd.growth[i]), i))]
    IN [historical |-> historical,
        forecast |-> forecast,
        confidenceUpper |-> [i \in 1..3 |-> Mul(forecast[i], JsDiv(11, 10))],
        confidenceLower |-> [i \in 1..3 |-> Mul(forecast[i], JsDiv(9, 10))]]

BudgetCategories == <<"Phones", "Laptops", "Tablets", "Accessories", "Gaming">>

\* budget * (0.8 + Math.random() * 0.4), variance and its percentage
generateBudgetData(rnd) ==
    [i \in 1..Len(BudgetCategories) |->
        LET budget == RandomBelow(rnd.base, 100000) + 50000
            actual == Mul(JsNum(budget), JsDiv(8 * RandomDen + 4 * rnd.base, 10 * RandomDen))
            variance == Reduce(JsDiv(actual.num - budget * actual.den, actual.den))
        IN [category |-> BudgetCategories[i],
            budget |-> budget,
            actual |-> actual,
            variance |-> variance,
            variancePercent |-> ToFixed1Pct(variance.num, variance.den * budget)]]

\* products.slice(0, limit).map(...).sort((a, b) => b.revenue - a.revenue):
\* with one base draw the revenues are equal and the stable sort keeps the order
getTopProducts(ps, rnd, limit) ==
    LET top == Slice(ps, 0, limit)
    IN [i \in 1..Len(top) |->
          [id |-> top[i].id,
           name |-> top[i].name,
           category |-> top[i].category,
           sales |-> RandomBelow(rnd.base, 100) + 50,
           revenue |-> RandomBelow(rnd.base, 10000) + 5000,
           growth |-> Reduce(JsDiv(rnd.base * 30 + 5 * RandomDen, RandomDen)),
           stock |-> top[i].stock,
           rating |-> IF top[i].rating # 0 THEN JsNum(top[i].rating) ELSE JsDiv(45, 10)]]

GetAnalyticsDashboard(startDate, endDate, period, rnd) ==
    LET start == IF startDate # NoDate THEN startDate ELSE DefaultStart(period, now)
        end == IF endDate # NoDate THEN endDate ELSE now
        os == readData("orders")
        us == readData("users")
    IN /\ response' =
            [kind |-> "dashboard",
             kpis |-> [totalRevenue |-> calculateTotalRevenue(os, start, end),
                       totalOrders |-> calculateTotalOrders(os, start, end),
                       avgOrderValue |-> calculateAverageOrderValue(os, start, end),
                       activeCustomers |-> calculateActiveCustomers(us, start, end),
                       newCustomers |-> calculateNewCustomers(us, start, end)],
             trend |-> generateTrendData(os, us, period, start, end),
             segmentation |-> generateSegmentationData(us, rnd),
             forecast |-> generateForecastData(rnd),
             budget |-> generateBudgetData(rnd),
             topProducts |-> getTopProducts(readData("products"), rnd, 10),
             alerts |-> [pendingOrders |->
                           Len(SelectSeq(os, LAMBDA o : o.status = "pending"))],
             meta |-> [period |-> period, startDate |-> start, endDate |-> end]]
       /\ AnalyticsWritesNothing
       /\ UNCHANGED <<unreadable, now, requests, orderDocs, productDocs>>

(***************************************************************************)
(* GET /api/admin/dashboard/stats                                          *)
(***************************************************************************)
\* const avgOrderValue = orders.length > 0 ?
\*     totalRevenue / orders.filter(o => o.status === 'delivered').length : 0
StatsAvgOrderValue(os) ==
    LET delivered == SelectSeq(os, IsDelivered)
        totalRevenue == SumSeq([i \in 1..Len(delivered) |-> delivered[i].total])
    IN IF Len(os) > 0 THEN JsDiv(totalRevenue, Len(delivered)) ELSE JsNum(0)

GetDashboardStats ==
    LET os == readData("orders")
        us == readData("users")
        delivered == SelectSeq(os, IsDelivered)
        monthStart == MakeDate(getFullYear(now), getMonth(now), 1, 0)
        monthDelivered == SelectSeq(delivered, LAMBDA o : o.createdAt >= monthStart)
    IN /\ response' =
            [kind |-> "stats",
             overview |->
               [totalUsers |-> Len(us),
                newUsersToday |-> Len(SelectSeq(us, LAMBDA u :
                                    DayIndex(u.createdAt) = DayIndex(now))),
                totalOrders |-> Len(os),
                totalRevenue |-> SumSeq([i \in 1..Len(delivered) |-> delivered[i].total]),
                monthRevenue |-> SumSeq([i \in 1..Len(monthDelivered) |->
                                           monthDelivered[i].total]),
                avgOrderValue |-> StatsAvgOrderValue(os),
                pendingOrders |-> Len(SelectSeq(os, LAMBDA o : o.status = "pending"))]]
       /\ AnalyticsWritesNothing
       /\ UNCHANGED <<unreadable, now, requests, orderDocs, productDocs>>

(***************************************************************************)
(* GET /api/admin/analytics/export                                         *)
(*   A text is a sequence of characters; a run of characters that holds no *)
(*   comma, double quote or newline may be kept as one element ("Active",  *)
(*   "2025").  A JavaScript value is [type, text, fields]: text is the     *)
(*   string '' + value, fields the properties of an object, in key order,  *)
(*   as pairs <<name, value>>.                                             *)
(***************************************************************************)
Comma == ","
Quote == "\""
Newline == "\n"

Str(s) == [type |-> "string", text |-> s, fields |-> <<>>]
Num(n) == [type |-> "number", text |-> <<ToString(n)>>, fields |-> <<>>]
Undefined == [type |-> "undefined", text |-> <<"undefined">>, fields |-> <<>>]
Null == [type |-> "null", text |-> <<"null">>, fields |-> <<>>]
Obj(fs) == [type |-> "object", text |-> <<"[object Object]">>, fields |-> fs]

\* the number a / b of JsDiv as a value
Frac(x) ==
    IF x.den = 0
    THEN [type |-> "number", text |-> <<IF x.num = 0 THEN "NaN" ELSE "Infinity">>,
          fields |-> <<>>]
    ELSE IF x.num % x.den = 0 THEN Num(x.num \div x.den)
    ELSE [type |-> "number", text |-> <<ToString(x.num), "/", ToString(x.den)>>,
          fields |-> <<>>]

\* the characters of a key of digits, as text
KeyText(key) ==
    [i \in 1..Len(key) |->
        IF key[i] >= 0 THEN ToString(key[i])
        ELSE IF key[i] = Dash THEN "-"
        ELSE IF key[i] = CharT THEN "T"
        ELSE "W"]

\* the stored form of a date: new Date().toISOString()
IsoString(t) == KeyText(IsoHour(t)) \o <<":00:00.000Z">>
DateValue(t) == IF t = NoDate THEN Null ELSE Str(IsoString(t))

\* Array.prototype.join
RECURSIVE Join(_, _)
Join(parts, sep) ==
    IF parts = <<>> THEN <<>>
    ELSE IF Len(parts) = 1 THEN parts[1]
    ELSE parts[1] \o <<sep>> \o Join(Tail(parts), sep)

\* ('' + value).replace(/"/g, '""')
RECURSIVE DoubleQuotes(_)
DoubleQuotes(text) ==
    IF text = <<>> THEN <<>>
    ELSE (IF Head(text) = Quote THEN <<Quote, Quote>> ELSE <<Head(text)>>)
            \o DoubleQuotes(Tail(text))

\* /[,"\n]/.test(escaped)
NeedsQuotesForComma(escaped) == \E i \in 1..Len(escaped) : escaped[i] = Comma
NeedsQuotes(escaped) ==
    \E i \in 1..Len(escaped) : escaped[i] \in {Comma, Quote, Newline}

\* row[header]
Property(row, header) ==
    IF \E i \in 1..Len(row) : row[i][1] = header
    THEN row[CHOOSE i \in 1..Len(row) : row[i][1] = header][2]
    ELSE Undefined

\* the cell of one value
CsvValue(value) ==
    LET escaped == DoubleQuotes(value.text)
    IN IF NeedsQuotes(escaped) THEN <<Quote>> \o escaped \o <<Quote>> ELSE escaped

\* data is [kind, rows]: an array of objects, one object (rows holds it
\* alone, as convertToCSV wraps it) or undefined (no rows)
ArrayData(rows) == [kind |-> "array", rows |-> rows]
ObjectData(row) == [kind |-> "object", rows |-> <<row>>]
UndefinedData == [kind |-> "undefined", rows |-> <<>>]

\* Object.keys(data[0]) throws a TypeError when data[0] is undefined
ConvertThrows(data) == data.kind = "undefined"

convertToCSV(data) ==
    IF data.rows = <<>> THEN <<>>
    ELSE LET headers == [i \in 1..Len(data.rows[1]) |-> data.rows[1][i][1]]
             values(row) == [h \in 1..Len(headers) |->
                               CsvValue(Property(row, headers[h]))]
             csvRows == <<Join([h \in 1..Len(headers) |-> <<headers[h]>>], Comma)>>
                          \o [r \in 1..Len(data.rows) |-> Join(values(data.rows[r]), Comma)]
         IN Join(csvRows, Newline)

UnixEpoch == MakeDate(1970, 0, 1, 0)

getDashboardExportData ==
    LET os == readData("orders")
    IN ObjectData(
         <<<<"summary",
             Obj(<<<<"totalRevenue", Num(calculateTotalRevenue(os, UnixEpoch, now))>>,
                   <<"totalOrders", Num(Len(os))>>,
                   <<"totalProducts", Num(Len(readData("products")))>>,
                   <<"totalUsers", Num(Len(readData("users")))>>,
                   <<"avgOrderValue",
                     Frac(calculateAverageOrderValue(os, UnixEpoch, now))>>>>)>>,
           <<"generatedAt", Str(IsoString(now))>>>>)

getProductsExportData ==
    LET ps == readData("products")
    IN ArrayData([i \in 1..Len(ps) |->
         <<<<"id", Str(<<ToString(ps[i].id)>>)>>,
           <<"name", Str(ps[i].name)>>,
           <<"category", Str(ps[i].category)>>,
           <<"brand", Str(ps[i].brand)>>,
           <<"price", Num(ps[i].price)>>,
           <<"discountPrice", Num(ps[i].discountPrice)>>,
           <<"stock", Num(ps[i].stock)>>,
           <<"status", Str(IF ps[i].isActive THEN <<"Active">> ELSE <<"Inactive">>)>>,
           <<"sales", Num(ps[i].salesCount)>>,
           <<"rating", Num(ps[i].rating)>>,
           <<"createdAt", DateValue(ps[i].createdAt)>>>>])

\* users.find(u => u._id === order.userId)
FindUser(us, uid) ==
    LET found == SelectSeq(us, LAMBDA u : u.id = uid)
    IN IF found = <<>> THEN <<>> ELSE <<found[1]>>

getOrdersExportData ==
    LET os == readData("orders")
        us == readData("users")
    IN ArrayData([i \in 1..Len(os) |->
         LET user == FindUser(us, os[i].userId)
         IN <<<<"id", Str(<<ToString(os[i].id)>>)>>,
              <<"customer",
                IF user # <<>>
                THEN Str(user[1].firstName \o <<" ">> \o user[1].lastName)
                ELSE Str(<<"Anonymous">>)>>,
              <<"email", IF user # <<>> THEN Str(user[1].email) ELSE Undefined>>,
              <<"date", DateValue(os[i].createdAt)>>,
              <<"items", Num(os[i].items)>>,
              <<"total", Num(os[i].total)>>,
              <<"status", Str(<<os[i].status>>)>>,
              <<"shippingMethod", os[i].shippingMethod>>,
              <<"paymentMethod", os[i].paymentMethod>>>>])

getCustomersExportData ==
    LET us == readData("users")
        os == readData("orders")
    IN ArrayData([i \in 1..Len(us) |->
         LET userOrders == OrdersOf(os, us[i].id)
             totalSpent == SumSeq([j \in 1..Len(userOrders) |-> userOrders[j].total])
         IN <<<<"id", Str(<<ToString(us[i].id)>>)>>,
              <<"name", Str(us[i].firstName \o <<" ">> \o us[i].lastName)>>,
              <<"email", Str(us[i].email)>>,
              <<"phone", us[i].phone>>,
              <<"joined", DateValue(us[i].createdAt)>>,
              <<"lastLogin", DateValue(us[i].lastLogin)>>,
              <<"totalOrders", Num(Len(userOrders))>>,
              <<"totalSpent", Num(totalSpent)>>,
              <<"avgOrderValue",
                IF Len(userOrders) > 0 THEN Frac(JsDiv(totalSpent, Len(userOrders)))
                ELSE Num(0)>>,
              <<"status", Str(IF us[i].isActive THEN <<"Active">> ELSE <<"Inactive">>)>>>>])

ExportTypes == {"dashboard", "products", "orders", "customers"}

\* let data; if (type === ...) data = await get...ExportData()
ExportData(type) ==
    IF type = "dashboard" THEN getDashboardExportData
    ELSE IF type = "products" THEN getProductsExportData
    ELSE IF type = "orders" THEN getOrdersExportData
    ELSE IF type = "customers" THEN getCustomersExportData
    ELSE UndefinedData

\* JSON.stringify leaves out the properties whose value is undefined
JsonData(data) ==
    [data EXCEPT !.rows =
        [r \in 1..Len(data.rows) |->
            SelectSeq(data.rows[r], LAMBDA f : f[2].type # "undefined")]]

\* the answer of the catch block; query in a response is req.query
ExportFailed == [kind |-> "error", status |-> 500, data |-> UndefinedData, body |-> <<>>,
                 meta |-> [type |-> "", format |-> ""],
                 query |-> [type |-> "", format |-> ""]]

GetAnalyticsExport(format, type) ==
    LET data == ExportData(type)
    IN /\ response' =
            IF format \in {"csv", "excel"}
            THEN IF ConvertThrows(data) THEN ExportFailed
                 ELSE [kind |-> "export", status |-> 200, data |-> UndefinedData,
                       body |-> convertToCSV(data),
                       meta |-> [type |-> type, format |-> format],
                       query |-> [type |-> type, format |-> format]]
            ELSE [kind |-> "export", status |-> 200, data |-> JsonData(data),
                  body |-> <<>>,
                  meta |-> [type |-> type, format |-> "json"],
                  query |-> [type |-> type, format |-> format]]
       /\ AnalyticsWritesNothing
       /\ UNCHANGED <<unreadable, now, requests, orderDocs, productDocs>>

(***************************************************************************)
(* GET /api/admin/analytics/realtime                                       *)
(*   topSellingProduct and recentActivity of the answer are left out       *)
(***************************************************************************)
\* (3.0 + Math.random() - 0.5).toFixed(1), in tenths
ConversionRates == 25..35

GetRealtimeStats(conversionRate) ==
    LET os == readData("orders")
        us == readData("users")
        ps == readData("products")
        todayStart == MakeDate(getFullYear(now), getMonth(now), getDate(now), 0)
        yesterdayStart == todayStart - HoursPerDay
        todayOrders == SelectSeq(os, LAMBDA o : o.createdAt >= todayStart)
        yesterdayOrders == SelectSeq(os, LAMBDA o :
                             o.createdAt >= yesterdayStart /\ o.createdAt < todayStart)
        todayRevenue == SumSeq([i \in 1..Len(todayOrders) |-> todayOrders[i].total])
        yesterdayRevenue ==
            SumSeq([i \in 1..Len(yesterdayOrders) |-> yesterdayOrders[i].total])
    IN /\ response' =
            [kind |-> "realtime",
             liveOrders |-> Len(todayOrders),
             todayRevenue |-> todayRevenue,
             revenueGrowth |->
                 IF yesterdayRevenue > 0
                 THEN ToFixed1Pct(todayRevenue - yesterdayRevenue, yesterdayRevenue)
                 ELSE JsNum(0),
             activeUsers |-> Len(SelectSeq(us, LAMBDA u :
                                u.lastLogin # NoDate /\ u.lastLogin >= now - 1)),
             lowStockProducts |-> Len(SelectSeq(ps, LAMBDA q :
                                     q.stock > 0 /\ q.stock < 10)),
             conversionRate |-> JsDiv(conversionRate, 10)]
       /\ AnalyticsWritesNothing
       /\ UNCHANGED <<unreadable, now, requests, orderDocs, productDocs>>

(***************************************************************************)
(* GET /api/products/:id, a request that writes: it counts the view        *)
(***************************************************************************)
GetProduct(id) ==
    LET ps == readData("products")
        found == {i \in 1..Len(ps) : ps[i].id = id}
    IN IF found = {}
       THEN /\ response' = [kind |-> "error", status |-> 404]
            /\ UNCHANGED <<users, orders, products, categories, unreadable, now,
                           requests, orderDocs, productDocs>>
       ELSE LET i == CHOOSE j \in found : \A k \in found : j <= k
                viewed == [ps EXCEPT ![i].views = @ + 1]
            IN /\ ps[i].views < MaxViews
               /\ products' = viewed
               /\ response' = [kind |-> "product", status |-> 200, data |-> viewed[i]]
               /\ UNCHANGED <<users, orders, categories, unreadable, now,
                              requests, orderDocs, productDocs>>

(***************************************************************************)
(* Snapshots of the store                                                  *)
(***************************************************************************)
(* POST /api/auth/register and POST /api/auth/login                        *)
(***************************************************************************)
\* A request r is a record of requests: op and email are its route and
\* body, pc the await it stands at, users the list it has read, status the
\* HTTP status it answered (0 before the answer).
IdleRequest == [op |-> "none", pc |-> "idle", email |-> "", users |-> <<>>, status |-> 0]
MissingEmail == ""

\* users.find(user => user.email === email): the indices of the matches
FindByEmailAmongActive(us, email) ==
    {i \in 1..Len(us) : us[i].email = email /\ us[i].isActive}
FindByEmail(us, email) == {i \in 1..Len(us) : us[i].email = email}

\* the answer ends the request; its list is dropped
Answer(r, op, email, status) ==
    /\ requests' = [requests EXCEPT ![r] = [op |-> op, pc |-> "done", email |-> email,
                                            users |-> <<>>, status |-> status]]
    /\ response' = [kind |-> op, status |-> status]

Await(r, op, email, us, pc) ==
    /\ requests' = [requests EXCEPT ![r] = [op |-> op, pc |-> pc, email |-> email,
                                            users |-> us, status |-> 0]]
    /\ UNCHANGED response

\* register from the validation to the awaited bcrypt.hash
RegisterStart(r, email) ==
    /\ requests[r].pc = "idle"
    /\ LET us == readData("users")
       IN IF email = MissingEmail THEN Answer(r, "register", email, 400)
          ELSE IF FindByEmail(us, email) # {} THEN Answer(r, "register", email, 400)
          ELSE Await(r, "register", email, us, "hash")
    /\ UNCHANGED <<users, orders, products, categories, unreadable, now,
                   orderDocs, productDocs>>

\* register after the hash: users.push(newUser); writeData('users', users)
RegisterFinish(r) ==
    /\ requests[r].pc = "hash"
    /\ LET newUser == [id |-> r, email |-> requests[r].email, isActive |-> TRUE,
                       createdAt |-> now, lastLogin |-> NoDate]
       IN /\ users' = Append(requests[r].users, newUser)
          /\ Answer(r, "register", requests[r].email, 201)
    /\ UNCHANGED <<orders, products, categories, unreadable, now, orderDocs, productDocs>>

\* login from the validation to the awaited bcrypt.compare
LoginStart(r, email) ==
    /\ requests[r].pc = "idle"
    /\ LET us == readData("users")
           found == FindByEmail(us, email)
       IN IF email = MissingEmail THEN Answer(r, "login", email, 400)
          ELSE IF found = {} THEN Answer(r, "login", email, 401)
          ELSE IF ~us[Min(found)].isActive THEN Answer(r, "login", email, 403)
          ELSE Await(r, "login", email, us, "compare")
    /\ UNCHANGED <<users, orders, products, categories, unreadable, now,
                   orderDocs, productDocs>>

\* login after the compare: user.lastLogin = ...; writeData('users', users)
LoginFinish(r, isPasswordValid) ==
    /\ requests[r].pc = "compare"
    /\ IF ~isPasswordValid
       THEN /\ Answer(r, "login", requests[r].email, 401)
            /\ UNCHANGED users
       ELSE LET us == requests[r].users
                i == Min(FindByEmail(us, requests[r].email))
            IN /\ users' = [us EXCEPT ![i].lastLogin = now]
               /\ Answer(r, "login", requests[r].email, 200)
    /\ UNCHANGED <<orders, products, categories, unreadable, now, orderDocs, productDocs>>

(***************************************************************************)
(* The Order model and PUT /orders/:id/status                              *)
(***************************************************************************)
\* orderDocs is the orders collection, productDocs the salesCount of the
\* products collection by product id.  A request that saves an order holds
\* its document in doc.
NoOrderNumber == <<>>
OrdPrefix == 0 - 4

\* (count + 1).toString().padStart(4, '0')
PadStart4(n) ==
    LET ds == Digits(n)
    IN IF Len(ds) >= 4 THEN ds ELSE [i \in 1..(4 - Len(ds)) |-> 0] \o ds

\* `ORD-${year}${month}${day}-${sequence}`
OrderNumber(t, count) ==
    <<OrdPrefix, Dash>> \o Digits(getFullYear(t)) \o Pad2(getMonth(t) + 1)
        \o Pad2(getDate(t)) \o <<Dash>> \o PadStart4(count + 1)

\* countDocuments({createdAt: {$gte: startOfDay, $lte: endOfDay}})
countDocuments(t) ==
    Cardinality({i \in 1..Len(orderDocs) :
                    DayIndex(orderDocs[i].createdAt) = DayIndex(t)})

OrderDoc(id, orderNumber, status, items, t) ==
    [id |-> id, orderNumber |-> orderNumber, status |-> status, items |-> items,
     createdAt |-> t]

SaveRequest(op, pc, doc, status) == [op |-> op, pc |-> pc, doc |-> doc, status |-> status]

\* post('save'): $inc salesCount by the quantity of every item of a
\* delivered order
RECURSIVE IncSalesCount(_, _)
IncSalesCount(docs, items) ==
    IF items = <<>> THEN docs
    ELSE LET item == Head(items)
             next == IF item.product \in DOMAIN docs
                     THEN [docs EXCEPT ![item.product].salesCount = @ + item.quantity]
                     ELSE docs
         IN IncSalesCount(next, Tail(items))

PostSave(doc) ==
    productDocs' = IF doc.status = "delivered" THEN IncSalesCount(productDocs, doc.items)
                   ELSE productDocs

\* save() of a new order, to the answer of countDocuments in pre('save')
PreSaveNewOrder(r, items) ==
    /\ requests[r].pc = "idle"
    /\ LET doc == OrderDoc(r, OrderNumber(now, countDocuments(now)), "pending", items, now)
       IN requests' = [requests EXCEPT ![r] = SaveRequest("create", "insert", doc, 0)]
    /\ UNCHANGED <<users, orders, products, categories, unreadable, now, response,
                   orderDocs, productDocs>>

\* the insert of the new order under the unique index of orderNumber, and
\* post('save')
InsertOrder(r) ==
    /\ requests[r].pc = "insert"
    /\ LET doc == requests[r].doc
       IN IF \E i \in 1..Len(orderDocs) : orderDocs[i].orderNumber = doc.orderNumber
          THEN /\ requests' = [requests EXCEPT ![r].pc = "done", ![r].status = 500]
               /\ UNCHANGED <<orderDocs, productDocs>>
          ELSE /\ orderDocs' = Append(orderDocs, doc)
               /\ PostSave(doc)
               /\ requests' = [requests EXCEPT ![r].pc = "done", ![r].status = 201]
    /\ response' = [kind |-> "order", status |-> requests'[r].status]
    /\ UNCHANGED <<users, orders, products, categories, unreadable, now>>

\* PUT /orders/:id/status to the answer of Order.findById
FindOrder(r, id, status) ==
    /\ requests[r].pc = "idle"
    /\ LET found == {i \in 1..Len(orderDocs) : orderDocs[i].id = id}
       IN IF found = {}
          THEN /\ requests' = [requests EXCEPT
                                 ![r] = SaveRequest("status", "done", OrderDoc(id, NoOrderNumber, status, <<>>, NoDate), 404)]
               /\ response' = [kind |-> "order", status |-> 404]
          ELSE /\ requests' = [requests EXCEPT
                                 ![r] = SaveRequest("status", "save",
                                                    [orderDocs[Min(found)] EXCEPT !.status = status], 0)]
               /\ UNCHANGED response
    /\ UNCHANGED <<users, orders, products, categories, unreadable, now,
                   orderDocs, productDocs>>

\* order.save() of the found order: pre('save') keeps its orderNumber, the
\* status is written, post('save') runs
SaveOrderStatus(r) ==
    /\ requests[r].pc = "save"
    /\ LET doc == requests[r].doc
       IN /\ orderDocs' = [i \in 1..Len(orderDocs) |->
                            IF orderDocs[i].id = doc.id
                            THEN [orderDocs[i] EXCEPT !.status = doc.status]
                            ELSE orderDocs[i]]
          /\ PostSave(doc)
    /\ requests' = [requests EXCEPT ![r].pc = "done", ![r].status = 200]
    /\ response' = [kind |-> "order", status |-> 200]
    /\ UNCHANGED <<users, orders, products, categories, unreadable, now>>

(***************************************************************************)
(* The admin product routes                                                *)
(***************************************************************************)
\* A product and a request body are objects: functions from the keys they
\* have; a key of value undefined is a key the object does not have.
UndefinedText == "undefined"
UndefinedNumber == 0 - 1
HasKey(x, k) == k \in DOMAIN x

\* the object with the given values, without the keys whose value is undefined
JsObject(name, sku, stock, price, isInStock) ==
    LET keys == {"category", "price"}
                  \cup (IF name = UndefinedText THEN {} ELSE {"name"})
                  \cup (IF sku = UndefinedText THEN {} ELSE {"sku"})
                  \cup (IF stock = UndefinedNumber THEN {} ELSE {"stock"})
                  \cup (IF isInStock = UndefinedText THEN {} ELSE {"isInStock"})
    IN [k \in keys |->
          CASE k = "name" -> name
            [] k = "sku" -> sku
            [] k = "stock" -> stock
            [] k = "price" -> price
            [] k = "category" -> "phones"
            [] k = "isInStock" -> isInStock = "true"]

\* Object.keys(source).forEach(key => target[key] = source[key])
Assign(target, source) ==
    [k \in DOMAIN target \cup DOMAIN source |->
        IF k \in DOMAIN source THEN source[k] ELSE target[k]]

\* x.stock > 0; undefined > 0 is false
StockPositive(x) == HasKey(x, "stock") /\ x.stock > 0

SkuOf(x) == IF HasKey(x, "sku") THEN x.sku ELSE UndefinedText
toLowerCase(name) == IF name = "TV" THEN "tv" ELSE name

\* generateId(): an id no stored product has
NewId(ps) == IF ps = <<>> THEN 1 ELSE Max({ps[i].id : i \in 1..Len(ps)}) + 1

ProductWrites(ps) ==
    /\ products' = ps
    /\ UNCHANGED <<users, orders, categories, unreadable, now,
                   requests, orderDocs, productDocs>>

\* POST /api/admin/products
CreateProduct(body) ==
    LET ps == readData("products")
        productData == Assign(body, [id |-> NewId(ps), isActive |-> TRUE,
                                     isInStock |-> StockPositive(body)])
    IN /\ Len(ps) < MaxStoredProducts
       /\ response' = [kind |-> "product", status |-> 201, data |-> productData]
       /\ ProductWrites(Append(ps, productData))

\* the stock status after the fields of a PUT were assigned
StockStatus(product, updates) ==
    IF HasKey(updates, "stock")
    THEN Assign(product, [isInStock |-> updates.stock > 0])
    ELSE product

\* PUT /api/admin/products/:id
UpdateProduct(id, updates) ==
    LET ps == readData("products")
        found == {i \in 1..Len(ps) : ps[i].id = id}
    IN IF found = {}
       THEN /\ response' = [kind |-> "error", status |-> 404]
            /\ ProductWrites(products)
       ELSE LET productIndex == Min(found)
                product == StockStatus(Assign(ps[productIndex], updates), updates)
            IN /\ response' = [kind |-> "product", status |-> 200, data |-> product]
               /\ ProductWrites([ps EXCEPT ![productIndex] = product])

\* !name || !category || !price || stock === undefined
MissingRequired(productData) ==
    \/ ~HasKey(productData, "name")
    \/ ~HasKey(productData, "category")
    \/ ~HasKey(productData, "price") \/ productData.price = 0
    \/ ~HasKey(productData, "stock")

\* p.sku === productData.sku || p.name.toLowerCase() === productData.name.toLowerCase()
SameSku(p, productData) == SkuOf(p) = SkuOf(productData)
SameName(p, productData) ==
    HasKey(p, "name") /\ toLowerCase(p.name) = toLowerCase(productData.name)

\* findIndex stops at the first product that matches or whose name is
\* undefined (p.name.toLowerCase() throws a TypeError); 0 when there is none
FirstDecisive(ps, productData) ==
    LET decisive == {i \in 1..Len(ps) :
                        \/ SameSku(ps[i], productData)
                        \/ ~HasKey(ps[i], "name")
                        \/ SameName(ps[i], productData)}
    IN IF decisive = {} THEN 0 ELSE Min(decisive)

\* the for loop of the bulk upload over the items from k on
RECURSIVE BulkLoop(_, _, _)
BulkLoop(acc, productsData, k) ==
    IF k > Len(productsData) THEN acc
    ELSE LET productData == productsData[k]
             ps == acc.products
             i == FirstDecisive(ps, productData)
         IN IF MissingRequired(productData)
            THEN BulkLoop([acc EXCEPT !.errors = @ + 1], productsData, k + 1)
            ELSE IF i # 0 /\ ~SameSku(ps[i], productData) /\ ~HasKey(ps[i], "name")
            THEN BulkLoop([acc EXCEPT !.errors = @ + 1], productsData, k + 1)
            ELSE IF i # 0
            THEN BulkLoop([acc EXCEPT !.products[i] = Assign(ps[i], productData),
                                      !.updated = @ + 1], productsData, k + 1)
            ELSE LET newProduct == Assign(productData,
                                          [id |-> NewId(ps), isActive |-> TRUE,
                                           isInStock |-> productData.stock > 0])
                 IN BulkLoop([acc EXCEPT !.products = Append(ps, newProduct),
                                         !.created = @ + 1], productsData, k + 1)

\* POST /api/admin/products/bulk
BulkUpload(isArray, productsData) ==
    IF ~isArray
    THEN /\ response' = [kind |-> "error", status |-> 400]
         /\ ProductWrites(products)
    ELSE LET done == BulkLoop([products |-> readData("products"), created |-> 0,
                               updated |-> 0, errors |-> 0], productsData, 1)
         IN /\ Len(readData("products")) + Len(productsData) <= MaxStoredProducts + 1
            /\ response' = [kind |-> "bulk", status |-> 201,
                            totalProcessed |-> Len(productsData),
                            created |-> done.created,
                            updated |-> done.updated,
                            errors |-> done.errors,
                            uploaded |-> productsData]
            /\ ProductWrites(done.products)

(***************************************************************************)
Now0 == MakeDate(2025, 2, 15, 12)
NoResponse == [kind |-> "none"]

\* no request between two of its awaits, and an empty database
NothingInFlight ==
    /\ requests = <<>>
    /\ orderDocs = <<>>
    /\ productDocs = <<>>

User(id, t) == [id |-> id, createdAt |-> t, lastLogin |-> NoDate]
Order(uid, total, status, t) ==
    [userId |-> uid, total |-> total, status |-> status, createdAt |-> t,
     items |-> 1]

\* Ranked snapshots: customers 1..n with one order each, of total
\* ((a * i + b) mod (MaxCustomers + 1)) + 1, and possibly one more order;
\* the users 1..k are registered, so a customer above k has no user record
RankedOrders(n, a, b) ==
    [i \in 1..n |-> Order(i, ((a * i + b) % (MaxCustomers + 1)) + 1, "delivered",
                          Now0 - DayHours(10))]

ExtraOrders(n) ==
    {<<>>} \cup {<<Order(u, tot, "pending", Now0 - DayHours(5))>> :
                    u \in 0..n, tot \in {1, MaxCustomers + 1}}

RankedSnapshots ==
    {[users |-> [i \in 1..k |-> User(i, Now0 - DayHours(40))],
      orders |-> IF rev THEN Reverse(RankedOrders(n, a, b) \o ex)
                 ELSE RankedOrders(n, a, b) \o ex] :
        n \in 0..MaxCustomers, a \in {0, 1, 3}, b \in {0, 1},
        ex \in ExtraOrders(2), k \in 0..MaxUsers, rev \in BOOLEAN}

\* Timed snapshots: few users and orders, with join and order dates on both
\* sides of every threshold of the customer analytics
JoinTimes == {Now0 - DayHours(400), Now0 - DayHours(200), Now0 - DayHours(20)}
OrderTimes == {Now0 - DayHours(190), Now0 - DayHours(130),
               Now0 - DayHours(100), Now0 - DayHours(10)}

TimedSnapshots ==
    {[users |-> [i \in 1..Len(js) |-> User(i, js[i])],
      orders |-> [i \in 1..Len(os) |-> Order(os[i][1], 1, "delivered", os[i][2])]] :
        js \in SeqUpTo(JoinTimes, MaxUsers),
        os \in SeqUpTo((1..(MaxUsers + 1)) \X OrderTimes, MaxOrders)}

InitCustomers ==
    /\ \E snap \in RankedSnapshots \cup TimedSnapshots :
          /\ users = snap.users
          /\ orders = snap.orders
    /\ products = <<>>
    /\ categories = <<>>
    /\ unreadable = {}
    /\ now = Now0
    /\ response = NoResponse
    /\ NothingInFlight

NextCustomers == GetCustomerAnalytics

SpecCustomers == InitCustomers /\ [][NextCustomers]_vars

(***************************************************************************)
(* Customer analytics over snapshots on the recency thresholds             *)
(***************************************************************************)
\* joined exactly 30 days ago, and one hour earlier
RecencyJoinTimes == {Now0 - DayHours(30), Now0 - DayHours(30) - 1}

\* last order exactly 60 and 120 days ago, one hour earlier than each, and
\* 10 days ago
RecencyOrderTimes == {Now0 - DayHours(60), Now0 - DayHours(60) - 1,
                      Now0 - DayHours(120), Now0 - DayHours(120) - 1,
                      Now0 - DayHours(10)}

RecencySnapshots ==
    {[users |-> [i \in 1..Len(js) |-> User(i, js[i])],
      orders |-> [i \in 1..Len(os) |-> Order(os[i][1], os[i][2], "delivered", os[i][3])]] :
        js \in SeqUpTo(RecencyJoinTimes, MaxRecencyUsers),
        os \in SeqUpTo({1, 2} \X {5} \X RecencyOrderTimes, MaxRecencyOrders)}

InitRecency ==
    /\ \E snap \in RecencySnapshots :
          /\ users = snap.users
          /\ orders = snap.orders
    /\ products = <<>>
    /\ categories = <<>>
    /\ unreadable = {}
    /\ now = Now0
    /\ response = NoResponse
    /\ NothingInFlight

NextRecency == GetCustomerAnalytics

SpecRecency == InitRecency /\ [][NextRecency]_vars

(***************************************************************************)
(* Order analytics over grouped snapshots                                  *)
(***************************************************************************)
\* Jan 8 (week 2), Feb 20, Mar 5 (week 10) and three orders around Mar 10
\* (week 11): same hour, next hour, next day
GroupTimes == {MakeDate(2025, 0, 8, 10), MakeDate(2025, 1, 20, 15),
               MakeDate(2025, 2, 5, 15), MakeDate(2025, 2, 10, 9), MakeDate(2025, 2, 10, 10),
               MakeDate(2025, 2, 11, 9)}
GroupBuyers == {<<1, 100>>, <<2, 200>>, <<NoUser, 100>>}

GroupSnapshots ==
    {[i \in 1..Len(os) |->
        [Order(os[i][1][1], os[i][1][2], "delivered", os[i][2])
            EXCEPT !.items = os[i][1][1] + 1]] :
        os \in SeqUpTo(GroupBuyers \X GroupTimes, MaxGroupOrders)}

\* no dates (the last 30 days), or an explicit range that ends on an order
GroupRanges == {<<NoDate, NoDate>>,
                <<MakeDate(2025, 0, 1, 0), MakeDate(2025, 2, 10, 9)>>}

InitOrders ==
    /\ users = <<>>
    /\ orders \in GroupSnapshots
    /\ products = <<>>
    /\ categories = <<>>
    /\ unreadable = {}
    /\ now = Now0
    /\ response = NoResponse
    /\ NothingInFlight

NextOrders ==
    \E range \in GroupRanges, groupBy \in GroupBys :
        GetOrderAnalytics(range[1], range[2], groupBy)

SpecOrders == InitOrders /\ [][NextOrders]_vars

(***************************************************************************)
(* The dashboards over dated snapshots                                     *)
(***************************************************************************)
RangeStart == MakeDate(2025, 0, 1, 0)
RangeEnd == MakeDate(2025, 0, 3, 0)

\* before the range, inside it, on the boundary of the first two daily
\* buckets, after the range, and within the last month before now
DashTimes == {MakeDate(2024, 11, 31, 0), MakeDate(2025, 0, 1, 12),
              MakeDate(2025, 0, 2, 0), MakeDate(2025, 0, 10, 0),
              MakeDate(2025, 2, 10, 9)}

DashSnapshots ==
    {[users |-> [i \in 1..Len(js) |-> User(i, js[i])],
      orders |-> [i \in 1..Len(os) |-> Order(1, 100, os[i][1], os[i][2])]] :
        js \in SeqUpTo({MakeDate(2025, 0, 2, 0), MakeDate(2025, 2, 10, 9)}, MaxDashUsers),
        os \in SeqUpTo(({"delivered"} \X DashTimes)
                          \cup {<<"pending", MakeDate(2025, 0, 10, 0)>>}, MaxDashOrders)}

RangePeriods == {"today", "week", "month", "quarter", "year"}
TrendPeriods == {"daily", "weekly", "monthly"}
Periods == RangePeriods \cup TrendPeriods

InitDashboard ==
    /\ \E snap \in DashSnapshots :
          /\ users = snap.users
          /\ orders = snap.orders
    /\ products = <<>>
    /\ categories = <<>>
    /\ unreadable = {}
    /\ now = Now0
    /\ response = NoResponse
    /\ NothingInFlight

NextDashboard ==
    \/ \E range \in {<<NoDate, NoDate>>, <<RangeStart, RangeEnd>>}, period \in Periods :
          GetAnalyticsDashboard(range[1], range[2], period, NoVariation)
    \/ GetDashboardStats
    \/ \E groupBy \in GroupBys : GetOrderAnalytics(RangeStart, RangeEnd, groupBy)

SpecDashboard == InitDashboard /\ [][NextDashboard]_vars

(***************************************************************************)
(* The export over snapshots with text fields                              *)
(***************************************************************************)
Product(id, name, isActive) ==
    [id |-> id, name |-> name, category |-> <<"phones">>, brand |-> <<"x">>,
     price |-> 10, discountPrice |-> 8, stock |-> 5, isActive |-> isActive,
     salesCount |-> 0, rating |-> 0, createdAt |-> Now0 - DayHours(50), views |-> 0]

ExportUser(id, firstName) ==
    User(id, Now0 - DayHours(40))
      @@ [firstName |-> firstName, lastName |-> <<"b">>, email |-> <<"a@b.c">>,
          phone |-> Str(<<"555">>), isActive |-> firstName = <<"a">>]

ExportOrder(id, uid, total) ==
    Order(uid, total, "delivered", Now0 - DayHours(10))
      @@ [id |-> id, shippingMethod |-> Str(<<"standard">>), paymentMethod |-> Undefined]

\* names without and with each of the characters that need quoting
ExportNames == {<<>>, <<"a">>, <<"a", Comma, "b">>, <<Quote, "a", Quote>>,
                <<"a", Newline, "b">>, <<Comma, Quote>>}

ExportSnapshots ==
    {[users |-> <<>>, orders |-> <<>>,
      products |-> [i \in 1..Len(names) |-> Product(i, names[i], i = 1)]] :
        names \in SeqUpTo(ExportNames, MaxExportProducts)}
    \cup
    {[users |-> [i \in 1..Len(fs) |-> ExportUser(i, fs[i])],
      orders |-> [i \in 1..Len(os) |-> ExportOrder(i, os[i][1], os[i][2])],
      products |-> <<Product(1, <<"a">>, TRUE)>>] :
        fs \in SeqUpTo({<<"a">>, <<"a", Comma>>}, MaxExportUsers),
        os \in SeqUpTo({1, 3} \X {100, 200}, MaxExportOrders)}

\* the keywords a request may carry: the supported ones and an unknown one
RequestFormats == {"json", "csv", "excel", "xml"}
RequestTypes == ExportTypes \cup {"inventory"}
RequestGroupBys == GroupBys \cup {"year"}

InitExport ==
    /\ \E snap \in ExportSnapshots :
          /\ users = snap.users
          /\ orders = snap.orders
          /\ products = snap.products
    /\ categories = <<>>
    /\ unreadable = {}
    /\ now = Now0
    /\ response = NoResponse
    /\ NothingInFlight

NextExport ==
    \/ \E format \in RequestFormats, type \in RequestTypes :
          GetAnalyticsExport(format, type)
    \/ \E groupBy \in RequestGroupBys : GetOrderAnalytics(NoDate, NoDate, groupBy)

SpecExport == InitExport /\ [][NextExport]_vars

(***************************************************************************)
(* All analytics requests, interleaved with product views, over stores     *)
(* of which some files cannot be read                                      *)
(***************************************************************************)
\* an order of 10 days ago and one of today
StoreOrders == <<ExportOrder(1, 1, 100),
                 [ExportOrder(2, 1, 200) EXCEPT !.createdAt = Now0 - 2]>>

StoreSnapshots ==
    {[users |-> us, orders |-> SubSeq(StoreOrders, 1, n), products |-> ps,
      categories |-> cs] :
        us \in {<<>>, <<ExportUser(1, <<"a">>)>>},
        n \in 0..Len(StoreOrders),
        ps \in {<<>>, <<Product(1, <<"a">>, TRUE)>>},
        cs \in {<<>>, <<[id |-> "phones", name |-> <<"Smartphones">>]>>}}

\* the files whose failure the report requests can meet
ReportFiles == {"users", "products", "orders"}

InitStore ==
    /\ \E snap \in StoreSnapshots :
          /\ users = snap.users
          /\ orders = snap.orders
          /\ products = snap.products
          /\ categories = snap.categories
    /\ unreadable \in SUBSET ReportFiles
    /\ now = Now0
    /\ response = NoResponse
    /\ NothingInFlight

NextStore ==
    \/ GetAnalyticsDashboard(NoDate, NoDate, "weekly", NoVariation)
    \/ GetOrderAnalytics(NoDate, NoDate, "day")
    \/ GetCustomerAnalytics
    \/ \E conversionRate \in ConversionRates : GetRealtimeStats(conversionRate)
    \/ \E format \in {"json", "csv"}, type \in ExportTypes :
          GetAnalyticsExport(format, type)
    \/ \E id \in {1, 2} : GetProduct(id)

SpecStore == InitStore /\ [][NextStore]_vars

(***************************************************************************)
(* The dashboard with every result of Math.random                          *)
(***************************************************************************)
\* k users, of whom the first n have one order each, and up to
\* MaxForecastProducts products
ForecastSnapshot(k, n) ==
    [users |-> [i \in 1..k |-> User(i, Now0 - DayHours(40))],
     orders |-> RankedOrders(n, 1, 0),
     products |-> [i \in 1..Min({k, MaxForecastProducts}) |-> Product(i, <<"p">>, TRUE)]]

ForecastSnapshots ==
    {ForecastSnapshot(k, n) : k \in {0, 1, MaxForecastUsers}, n \in {0, 1}}

InitForecast ==
    /\ \E snap \in ForecastSnapshots :
          /\ users = snap.users
          /\ orders = snap.orders
          /\ products = snap.products
    /\ categories = <<>>
    /\ unreadable = {}
    /\ now = Now0
    /\ response = NoResponse
    /\ NothingInFlight

NextForecast ==
    \/ \E rnd \in RandomResults : GetAnalyticsDashboard(NoDate, NoDate, "weekly", rnd)
    \/ GetCustomerAnalytics

SpecForecast == InitForecast /\ [][NextForecast]_vars

(***************************************************************************)
(* Concurrent register and login requests                                  *)
(***************************************************************************)
Emails == {"a@x", "b@x"}
AuthUser(id, email, isActive) ==
    [id |-> id, email |-> email, isActive |-> isActive,
     createdAt |-> Now0 - DayHours(40), lastLogin |-> NoDate]

Requests == 1..MaxRequests

InitAuth ==
    /\ users \in {<<>>, <<AuthUser(0, "a@x", TRUE)>>, <<AuthUser(0, "a@x", FALSE)>>}
    /\ orders = <<>>
    /\ products = <<>>
    /\ categories = <<>>
    /\ unreadable = {}
    /\ now = Now0
    /\ response = NoResponse
    /\ requests = [r \in Requests |-> IdleRequest]
    /\ orderDocs = <<>>
    /\ productDocs = <<>>

NextAuth ==
    \E r \in Requests :
        \/ \E email \in Emails \cup {MissingEmail} : RegisterStart(r, email)
        \/ RegisterFinish(r)
        \/ \E email \in Emails \cup {MissingEmail} : LoginStart(r, email)
        \/ \E isPasswordValid \in BOOLEAN : LoginFinish(r, isPasswordValid)

SpecAuth == InitAuth /\ [][NextAuth]_vars

(***************************************************************************)
(* Concurrent saves and status updates of orders                           *)
(***************************************************************************)
OrderItems == {<<[product |-> 1, quantity |-> 2]>>,
               <<[product |-> 1, quantity |-> 1], [product |-> 2, quantity |-> 3]>>}

InitOrderModel ==
    /\ users = <<>>
    /\ orders = <<>>
    /\ products = <<>>
    /\ categories = <<>>
    /\ unreadable = {}
    /\ now = Now0
    /\ response = NoResponse
    /\ requests = [r \in Requests |-> IdleRequest]
    /\ orderDocs \in {<<>>, <<OrderDoc(0, OrderNumber(Now0, 0), "pending",
                                       <<[product |-> 2, quantity |-> 1]>>, Now0)>>}
    /\ productDocs = [p \in 1..2 |-> [salesCount |-> 0]]

NextOrderModel ==
    \E r \in Requests :
        \/ \E items \in OrderItems : PreSaveNewOrder(r, items)
        \/ InsertOrder(r)
        \/ \E id \in 0..1, status \in {"shipped", "delivered"} : FindOrder(r, id, status)
        \/ SaveOrderStatus(r)

SpecOrderModel == InitOrderModel /\ [][NextOrderModel]_vars

(***************************************************************************)
(* Admin product requests over the JSON-file store                         *)
(***************************************************************************)
\* a seeded product: stock and isInStock, no sku
SeededProduct == Assign(JsObject("tv", UndefinedText, 3, 10, "true"), [id |-> 1, isActive |-> TRUE])

CreateBodies ==
    {JsObject(name, sku, stock, 10, UndefinedText) :
        name \in {"tv", UndefinedText}, sku \in {"s1", UndefinedText},
        stock \in {0, 3, UndefinedNumber}}

UpdateBodies == {[stock |-> 0], [stock |-> 3], [isInStock |-> TRUE], [sku |-> "s1"]}

UploadItems ==
    {JsObject(name, sku, stock, 10, UndefinedText) :
        name \in {"TV", "radio"}, sku \in {"s1", UndefinedText}, stock \in {0, 3}}
      \cup {JsObject("radio", UndefinedText, 3, 0, UndefinedText)}

InitProducts ==
    /\ users = <<>>
    /\ orders = <<>>
    /\ products \in {<<>>, <<SeededProduct>>}
    /\ categories = <<>>
    /\ unreadable = {}
    /\ now = Now0
    /\ response = NoResponse
    /\ NothingInFlight

NextProducts ==
    \/ \E body \in CreateBodies : CreateProduct(body)
    \/ \E id \in 1..(MaxStoredProducts + 1), updates \in UpdateBodies : UpdateProduct(id, updates)
    \/ \E isArray \in BOOLEAN, productsData \in SeqUpTo(UploadItems, MaxUploadItems) :
          BulkUpload(isArray, productsData)

SpecProducts == InitProducts /\ [][NextProducts]_vars

(***************************************************************************)
(* Properties of the customer analytics                                    *)
(***************************************************************************)
IsCustomers == response.kind = "customers"

Tiers == {"highValue", "mediumValue", "lowValue"}
TierSet(name) == Range(response.segmentation[name])
TierSize(name) == Len(response.segmentation[name])

\* no customer is listed twice, in one tier or in two
TiersDisjoint ==
    /\ \A a \in Tiers : Cardinality(TierSet(a)) = TierSize(a)
    /\ \A a, b \in Tiers : a # b => TierSet(a) \cap TierSet(b) = {}

TierTotal == TierSize("highValue") + TierSize("mediumValue") + TierSize("lowValue")

\* the userIds that occur in orders, and the users that have an order
OrderingIds == {orders[i].userId : i \in 1..Len(orders)} \ {NoUser}
UsersWithOrders == {i \in 1..Len(users) : users[i].id \in OrderingIds}

\* lifetime spend of a userId, summed over the stored orders
RECURSIVE SpendOver(_, _)
SpendOver(uid, idx) ==
    IF idx = {} THEN 0
    ELSE LET i == CHOOSE j \in idx : TRUE
         IN (IF orders[i].userId = uid THEN orders[i].total ELSE 0)
            + SpendOver(uid, idx \ {i})
SpendOf(uid) == SpendOver(uid, 1..Len(orders))

\* C1 as stated: the High Value, Medium Value and Low Value segments are
\* pairwise disjoint and their sizes sum to the number of customers (users of
\* the snapshot) that have at least one order.
C1_TiersPartitionUsersWithOrders ==
    IsCustomers => /\ TiersDisjoint
                   /\ TierTotal = Cardinality(UsersWithOrders)

\* C1 amended: the three spend tiers are pairwise disjoint and their sizes sum
\* to the number of distinct userIds that occur in orders, whether or not a
\* user with that id is stored.
C1_TiersPartitionOrderingIds ==
    IsCustomers => /\ TiersDisjoint
                   /\ TierTotal = Cardinality(OrderingIds)
                   /\ TierSet("highValue") \cup TierSet("mediumValue")
                        \cup TierSet("lowValue") = OrderingIds

C1_Witness ==
    /\ IsCustomers
    /\ \A a \in Tiers : TierSize(a) >= 1
    /\ Cardinality(UsersWithOrders) < Cardinality(OrderingIds)

\* C2: with n ranked customers, High Value holds the top ceil(20% of n) of the
\* spend ranking, Medium Value the next ceil(60% of n) as far as customers
\* remain, Low Value the rest; this is exactly 20% / 60% / 20% when n is a
\* multiple of 5 (2, 6 and 2 for n = 10).  The sizes depend on n only, and no
\* customer outside High Value has spent more than one inside.
C2_RankCutoffs ==
    IsCustomers =>
      LET n == Cardinality(OrderingIds)
          h == TierSize("highValue")
          m == TierSize("mediumValue")
          l == TierSize("lowValue")
      IN /\ 5 * h >= n /\ 5 * (h - 1) < n
         /\ \/ 5 * m >= 3 * n /\ 5 * (m - 1) < 3 * n /\ l = n - h - m
            \/ 5 * m < 3 * n /\ m = n - h /\ l = 0
         /\ n % 5 = 0 => (5 * h = n /\ 5 * m = 3 * n /\ 5 * l = n)
         /\ n = 10 => (h = 2 /\ m = 6 /\ l = 2)
         /\ \A a \in TierSet("highValue") :
              \A b \in OrderingIds \ TierSet("highValue") : SpendOf(a) >= SpendOf(b)

C2_Witness ==
    /\ IsCustomers
    /\ Cardinality(OrderingIds) = 10
    /\ \A a, b \in OrderingIds : a # b => SpendOf(a) # SpendOf(b)
    /\ TierSize("highValue") = 2 /\ TierSize("mediumValue") = 6
    /\ TierSize("lowValue") = 2
    /\ \A a \in TierSet("highValue") :
         \A b \in OrderingIds \ TierSet("highValue") : SpendOf(a) > SpendOf(b)

Rows == response.retentionAnalysis

\* C3: in every cohort row the retention percentages do not decrease with the
\* horizon: month1 <= month2 <= month3 <= month6 <= month12.
C3_RetentionMonotone ==
    IsCustomers =>
      \A c \in 1..Len(Rows) :
        /\ NumLeq(Rows[c].pct[1], Rows[c].pct[2])
        /\ NumLeq(Rows[c].pct[2], Rows[c].pct[3])
        /\ NumLeq(Rows[c].pct[3], Rows[c].pct[6])
        /\ NumLeq(Rows[c].pct[6], Rows[c].pct[12])

C3_Witness ==
    /\ IsCustomers
    /\ \E c \in 1..Len(Rows) :
         /\ Rows[c].totalUsers >= 2
         /\ Rows[c].pct[1].num > 0
         /\ Rows[c].pct[1].num < Rows[c].pct[6].num

\* C9: for every customer with an order, the month delta used for the
\* retention horizons is measured from the join date to the earliest order
\* date of the customer, whatever the order of the stored orders.
C9_DeltaFromEarliestOrder ==
    IsCustomers =>
      \A i \in DOMAIN response.monthsSinceJoin :
        response.monthsSinceJoin[i] =
          (Min(OrderDates(OrdersOf(orders, users[i].id))) - users[i].createdAt)
             \div MonthHours

\* C10: every cohort row has totalUsers >= 1, and each of its five percentages
\* is a finite number between 0 and 100 (also with no user at all).
C10_RowsWellDefined ==
    IsCustomers =>
      \A c \in 1..Len(Rows) :
        /\ Rows[c].totalUsers >= 1
        /\ \A k \in Horizons :
             /\ IsFiniteNum(Rows[c].pct[k])
             /\ NumLeq(JsNum(0), Rows[c].pct[k])
             /\ NumLeq(Rows[c].pct[k], JsNum(100))

C10_Witness ==
    /\ IsCustomers
    /\ Len(Rows) >= 2
    /\ \E c \in 1..Len(Rows) : Rows[c].totalUsers = 1 /\ Rows[c].pct[12] = JsDiv(1000, 10)
    /\ \E c \in 1..Len(Rows) : Rows[c].pct[12] = JsDiv(0, 10)

\* the stored users listed under a segment of the response
Tagged(name) == {i \in 1..Len(users) : users[i].id \in Range(response.segmentation[name])}

\* the users that have an order, and the age in hours of their latest order
HasOrder(i) == \E j \in 1..Len(orders) : orders[j].userId = users[i].id
LastOrderAge(i) ==
    now - Max({orders[j].createdAt : j \in {k \in 1..Len(orders) :
                                              orders[k].userId = users[i].id}})

\* C11: a user is listed under New iff it joined at most 30 days before now;
\* under At Risk iff its most recent order is more than 60 and at most 120
\* days old; under Dormant iff its most recent order is more than 120 days
\* old.  No user is both At Risk and Dormant, and the recency tags do not
\* depend on the spend tier of the user.
C11_RecencyTags ==
    IsCustomers =>
      /\ \A i \in 1..Len(users) :
           /\ i \in Tagged("new") <=> now - users[i].createdAt <= DayHours(30)
           /\ i \in Tagged("atRisk") <=>
                 /\ HasOrder(i)
                 /\ LastOrderAge(i) > DayHours(60)
                 /\ LastOrderAge(i) <= DayHours(120)
           /\ i \in Tagged("dormant") <=>
                 HasOrder(i) /\ LastOrderAge(i) > DayHours(120)
      /\ Tagged("atRisk") \cap Tagged("dormant") = {}

\* a user in a spend tier that is also New and At Risk with a last order
\* exactly 120 days old, next to a user whose last order is exactly 60 days old
C11_Witness ==
    /\ IsCustomers
    /\ \E i \in Tagged("atRisk") \cap Tagged("new") :
         /\ LastOrderAge(i) = DayHours(120)
         /\ \E a \in Tiers : users[i].id \in TierSet(a)
    /\ \E i \in 1..Len(users) :
         /\ HasOrder(i)
         /\ LastOrderAge(i) = DayHours(60)
         /\ i \notin Tagged("atRisk") \cup Tagged("dormant")

SegmentNames == {"highValue", "mediumValue", "lowValue", "new", "atRisk", "dormant"}

\* C12: a user without any order is in no spend tier and neither At Risk nor
\* Dormant; if it joined more than 30 days ago it is in no segment at all.
\* The customer analytics request answers with the report, never an error.
C12_NoOrdersNoSegment ==
    /\ response.kind # "error"
    /\ IsCustomers =>
         \A i \in 1..Len(users) :
           ~HasOrder(i) =>
             /\ \A a \in Tiers : users[i].id \notin TierSet(a)
             /\ i \notin Tagged("atRisk") \cup Tagged("dormant")
             /\ now - users[i].createdAt > DayHours(30) =>
                  \A name \in SegmentNames : i \notin Tagged(name)

\* a user without orders that joined long ago, next to a Dormant user of a
\* spend tier
C12_Witness ==
    /\ IsCustomers
    /\ \E i, j \in 1..Len(users) :
         /\ ~HasOrder(i)
         /\ now - users[i].createdAt > DayHours(30)
         /\ \A name \in SegmentNames : i \notin Tagged(name)
         /\ j \in Tagged("dormant")
         /\ \E a \in Tiers : users[j].id \in TierSet(a)

\* C13: the tiers follow the ranking by lifetime spend, the sum of total over
\* all orders that carry the customer's userId: a customer of a higher tier
\* has spent at least as much as any customer of a lower tier.
C13_TiersFollowLifetimeSpend ==
    IsCustomers =>
      /\ \A a \in TierSet("highValue") :
           \A b \in TierSet("mediumValue") \cup TierSet("lowValue") :
             SpendOf(a) >= SpendOf(b)
      /\ \A a \in TierSet("mediumValue") :
           \A b \in TierSet("lowValue") : SpendOf(a) >= SpendOf(b)

\* three tiers, with a High Value customer of two orders that outranks a
\* Medium Value one by their sum, though not by its first order alone
C13_Witness ==
    /\ IsCustomers
    /\ TierSize("lowValue") >= 1
    /\ \E a \in TierSet("highValue"), b \in TierSet("mediumValue") :
         /\ SpendOf(a) > SpendOf(b)
         /\ \E j, k \in 1..Len(orders) :
              /\ j # k
              /\ orders[j].userId = a /\ orders[k].userId = a
              /\ orders[j].total < SpendOf(b)

(***************************************************************************)
(* Properties of the order analytics and of the dashboards                 *)
(***************************************************************************)
IsOrders == response.kind = "orders"
IsDashboard == response.kind = "dashboard"
IsStats == response.kind = "stats"

Grouped == response.groupedData
Trend == response.trend

\* the stored orders created in the closed range [start, end]
OrdersWithin(start, end) ==
    {i \in 1..Len(orders) : start <= orders[i].createdAt /\ orders[i].createdAt <= end}
DeliveredWithin(start, end) ==
    {i \in OrdersWithin(start, end) : orders[i].status = "delivered"}

RECURSIVE TotalOver(_)
TotalOver(idx) ==
    IF idx = {} THEN 0
    ELSE LET i == CHOOSE j \in idx : TRUE IN orders[i].total + TotalOver(idx \ {i})

InRangeOrders == OrdersWithin(response.meta.startDate, response.meta.endDate)
OrdersOfDay(d) == {i \in InRangeOrders : DayIndex(orders[i].createdAt) = d}
DaysWithOrders == {DayIndex(orders[i].createdAt) : i \in InRangeOrders}

\* C14: grouped by day, there is exactly one entry per calendar day that has
\* an order; its orders is the number of orders of that day, its revenue the
\* sum of their totals, its avgOrderValue revenue / orders and its
\* uniqueCustomers the number of distinct userIds among them.
C14_OneEntryPerDay ==
    IsOrders /\ response.meta.groupBy = "day" =>
      /\ Len(Grouped) = Cardinality(DaysWithOrders)
      /\ \A d \in DaysWithOrders :
           \E g \in 1..Len(Grouped) :
             LET day == OrdersOfDay(d)
                 t == orders[CHOOSE i \in day : TRUE].createdAt
             IN /\ Grouped[g].date = IsoDay(t)
                /\ Grouped[g].orders = Cardinality(day)
                /\ Grouped[g].revenue = TotalOver(day)
                /\ Grouped[g].avgOrderValue = JsDiv(TotalOver(day), Cardinality(day))
                /\ Grouped[g].uniqueCustomers =
                     Cardinality({orders[i].userId : i \in day} \ {NoUser})

\* orders of 100 and 200 at two hours of one day: one entry with revenue 300,
\* orders 2, average 150
C14_Witness ==
    /\ IsOrders /\ response.meta.groupBy = "day"
    /\ \E i, j \in InRangeOrders : orders[i].createdAt # orders[j].createdAt
    /\ Len(Grouped) = 1
    /\ Grouped[1].revenue = 300 /\ Grouped[1].orders = 2
    /\ Grouped[1].avgOrderValue.num = 150 * Grouped[1].avgOrderValue.den
    /\ Grouped[1].uniqueCustomers = 2

\* the time of the earliest order counted in entry g of groupedData
EntryTime(g) ==
    Min({orders[i].createdAt : i \in {j \in InRangeOrders :
           GroupKey(orders[j].createdAt, response.meta.groupBy) = Grouped[g].date}})

\* C15: for each of the four granularities the entries of groupedData are in
\* ascending chronological order of their buckets (week 2 of a year comes
\* before week 10 of that year).
C15_GroupsChronological ==
    IsOrders /\ response.meta.groupBy \in GroupBys =>
      \A g \in 1..(Len(Grouped) - 1) : EntryTime(g) < EntryTime(g + 1)

\* C5: every average of a report is exactly 0 when it is taken over zero
\* records: kpis.avgOrderValue of the analytics dashboard, avgOrderValue and
\* itemsPerOrder of an order group, metrics.avgOrderValue of the order
\* analytics, and overview.avgOrderValue of the dashboard stats when no order
\* is delivered.
C5_EmptyAverageIsZero ==
    /\ IsDashboard =>
         (DeliveredWithin(response.meta.startDate, response.meta.endDate) = {}
            => IsZero(response.kpis.avgOrderValue))
    /\ IsOrders =>
         /\ response.metrics.totalOrders = 0 => IsZero(response.metrics.avgOrderValue)
         /\ \A g \in 1..Len(Grouped) :
              Grouped[g].orders = 0 =>
                IsZero(Grouped[g].avgOrderValue) /\ IsZero(Grouped[g].itemsPerOrder)
    /\ IsStats =>
         ((\A i \in 1..Len(orders) : orders[i].status # "delivered")
            => IsZero(response.overview.avgOrderValue))

\* C6: if no order was created inside the requested range [start, end], the
\* dashboard report has kpis.totalRevenue = 0 and kpis.avgOrderValue = 0, and
\* its trend has buckets whose Revenue and Orders values are all 0.
C6_EmptyRangeAllZero ==
    IsDashboard /\ OrdersWithin(response.meta.startDate, response.meta.endDate) = {} =>
      /\ response.kpis.totalRevenue = 0
      /\ IsZero(response.kpis.avgOrderValue)
      /\ Len(Trend) > 0
      /\ \A b \in 1..Len(Trend) : Trend[b].revenue = 0 /\ Trend[b].orders = 0

\* C7: every order and every new user with start <= t < end is counted in
\* exactly one trend bucket and every other record in none, so the Orders
\* values of the trend sum to the number of orders of [start, end), and the
\* New Customers values to the number of users created in [start, end).
C7_CountedExactlyOnce ==
    IsDashboard =>
      LET start == response.meta.startDate
          end == response.meta.endDate
      IN /\ SumSeq([b \in 1..Len(Trend) |-> Trend[b].orders])
              = Cardinality({i \in 1..Len(orders) :
                    start <= orders[i].createdAt /\ orders[i].createdAt < end})
         /\ SumSeq([b \in 1..Len(Trend) |-> Trend[b].customers])
              = Cardinality({i \in 1..Len(users) :
                    start <= users[i].createdAt /\ users[i].createdAt < end})

\* C8: the trend is a sequence of buckets in ascending chronological order
\* that starts at start, is contiguous and reaches end; no bucket lies
\* entirely after end.
C8_TrendAscendingCover ==
    IsDashboard =>
      /\ Len(Trend) > 0
      /\ Trend[1].pointStart = response.meta.startDate
      /\ \A b \in 1..(Len(Trend) - 1) :
           /\ Trend[b].pointStart < Trend[b + 1].pointStart
           /\ Trend[b].pointEnd = Trend[b + 1].pointStart
      /\ Trend[Len(Trend)].pointEnd >= response.meta.endDate
      /\ \A b \in 1..Len(Trend) : Trend[b].pointStart <= response.meta.endDate

(***************************************************************************)
(* Properties of the export                                                *)
(***************************************************************************)
IsExport == response.kind = "export"
IsCsvExport == IsExport /\ response.meta.format \in {"csv", "excel"}
IsJsonExport == IsExport /\ response.meta.format = "json"

\* a reader of CSV text: cells are separated by commas and rows by newlines
\* outside double quotes (after an even number of quotes); a cell that starts
\* with a quote is read without its outer quotes, a doubled quote as one quote
OutsideQuotes(text, i) == Cardinality({j \in 1..(i - 1) : text[j] = Quote}) % 2 = 0
Breaks(text, sep) == {i \in 1..Len(text) : text[i] = sep /\ OutsideQuotes(text, i)}

\* the pieces of text between the positions of at
SplitAt(text, at) ==
    LET n == Cardinality(at)
        pos(k) == CHOOSE q \in at : Cardinality({r \in at : r < q}) = k - 1
        first(k) == IF k = 1 THEN 1 ELSE pos(k - 1) + 1
        last(k) == IF k = n + 1 THEN Len(text) ELSE pos(k) - 1
    IN [k \in 1..(n + 1) |-> SubSeq(text, first(k), last(k))]

RECURSIVE Undouble(_)
Undouble(text) ==
    IF Len(text) < 2 THEN text
    ELSE IF text[1] = Quote /\ text[2] = Quote
         THEN <<Quote>> \o Undouble(SubSeq(text, 3, Len(text)))
         ELSE <<text[1]>> \o Undouble(Tail(text))

Unquote(cell) ==
    IF cell # <<>> /\ cell[1] = Quote
    THEN Undouble(SubSeq(cell, 2, Len(cell) - 1))
    ELSE cell

ParseCsv(text) ==
    IF text = <<>> THEN <<>>
    ELSE LET lines == SplitAt(text, Breaks(text, Newline))
         IN [r \in 1..Len(lines) |->
               LET cells == SplitAt(lines[r], Breaks(lines[r], Comma))
               IN [c \in 1..Len(cells) |-> Unquote(cells[c])]]

\* the records handed to convertToCSV for the exported type
ExportedRecords == ExportData(response.meta.type).rows

HasSpecial(text) == \E i \in 1..Len(text) : text[i] \in {Comma, Quote, Newline}

\* the cell the layout rule gives for a value
ExpectedCell(value) ==
    IF HasSpecial(value.text)
    THEN <<Quote>> \o DoubleQuotes(value.text) \o <<Quote>>
    ELSE value.text

\* the value of a JSON field can be read from a CSV cell: a scalar by its
\* text, an object by the text of each of its properties
Recovered(value, cell) ==
    IF value.type = "object"
    THEN \A k \in 1..Len(value.fields) :
           \A c \in 1..Len(value.fields[k][2].text) :
             value.fields[k][2].text[c] \in Range(cell)
    ELSE cell = value.text

\* C16 as a property of one CSV export, for the types of TypesChecked
RoundTrips(TypesChecked) ==
    IsCsvExport /\ response.meta.type \in TypesChecked =>
      LET json == JsonData(ExportData(response.meta.type)).rows
          parsed == ParseCsv(response.body)
      IN /\ Len(parsed) = IF json = <<>> THEN 0 ELSE Len(json) + 1
         /\ \A r \in 1..Len(json) :
              \A f \in 1..Len(json[r]) :
                \E col \in 1..Len(parsed[1]) :
                  /\ parsed[1][col] = <<json[r][f][1]>>
                  /\ Len(parsed[r + 1]) = Len(parsed[1])
                  /\ Recovered(json[r][f][2], parsed[r + 1][col])

\* C16: for the four export types, reading the CSV export back gives as many
\* data rows as the data of the JSON export of the same snapshot has records,
\* and the value of every field of every JSON record.
C16_CsvRoundTrip == RoundTrips(ExportTypes)

\* the round trip of the three exports whose records are flat
FlatExportsRoundTrip == RoundTrips({"products", "orders", "customers"})

\* C17: the CSV text is a header row of the first record's field names, then
\* one row per record in input order, the cells of a row joined by commas
\* and the rows by newlines; a value is wrapped in double quotes with every
\* inner double quote doubled iff it holds a comma, a double quote or a
\* newline, and is emitted unchanged otherwise (no record: empty text).
C17_CsvLayout ==
    IsCsvExport =>
      LET recs == ExportedRecords
          headerRow == Join([f \in 1..Len(recs[1]) |-> <<recs[1][f][1]>>], Comma)
          dataRow(r) == Join([f \in 1..Len(recs[r]) |-> ExpectedCell(recs[r][f][2])],
                             Comma)
      IN response.body =
           IF recs = <<>> THEN <<>>
           ELSE Join(<<headerRow>> \o [r \in 1..Len(recs) |-> dataRow(r)], Newline)

\* two products, the plain name a and the name "a" in double quotes: the
\* first is emitted unchanged, the second wrapped with its quotes doubled,
\* and a CSV reader gets both names back
C17_Witness ==
    /\ IsCsvExport /\ response.meta.type = "products"
    /\ Len(products) = 2
    /\ products[1].name = <<"a">>
    /\ products[2].name = <<Quote, "a", Quote>>
    /\ \E i \in 1..(Len(response.body) - 8) :
         SubSeq(response.body, i, i + 8)
           = <<Comma, Quote, Quote, Quote, "a", Quote, Quote, Quote, Comma>>
    /\ LET parsed == ParseCsv(response.body)
       IN /\ Len(parsed) = 3
          /\ parsed[1][2] = <<"name">>
          /\ parsed[2][2] = <<"a">>
          /\ parsed[3][2] = <<Quote, "a", Quote>>

\* C19: a request with an unknown keyword gets no success response: every
\* answered export has a type of {dashboard, products, orders, customers} and
\* a format of {json, csv}, and every answered order analytics request a
\* supported groupBy.
C19_UnknownKeywordRejected ==
    /\ IsExport => /\ response.query.type \in ExportTypes
                   /\ response.query.format \in {"json", "csv"}
    /\ IsOrders => response.meta.groupBy \in GroupBys

(***************************************************************************)
(* Properties of the reports over the store                                *)
(***************************************************************************)
ReportKinds == {"dashboard", "orders", "customers", "realtime", "export"}
IsReport == response.kind \in ReportKinds

\* the files the answered request has read
FilesRead ==
    IF response.kind \in {"dashboard", "realtime"} THEN {"users", "products", "orders"}
    ELSE IF response.kind = "orders" THEN {"orders", "products"}
    ELSE IF response.kind = "customers" THEN {"users", "orders"}
    ELSE IF response.query.type = "dashboard" THEN {"users", "products", "orders"}
    ELSE IF response.query.type = "products" THEN {"products"}
    ELSE IF response.query.type \in {"orders", "customers"} THEN {"users", "orders"}
    ELSE {}

\* C18: when the read of users, products or orders fails during a report
\* request, the request answers with an error: no report is answered with
\* success after a failed read of a file it uses.
C18_ReadFailurePropagates == IsReport => FilesRead \cap unreadable = {}

\* C20: a step that answers an analytics request (dashboard, orders,
\* customers, realtime, export, also with an error) leaves users, products,
\* orders and categories as they were, whatever requests came before.
C20_AnalyticsLeaveStore ==
    [][response'.kind \in ReportKinds
         => UNCHANGED <<users, orders, products, categories>>]_vars

\* a report answered over a full store after product views were written
C20_Witness ==
    /\ IsReport
    /\ users # <<>> /\ Len(orders) = 2 /\ categories # <<>>
    /\ products # <<>> /\ products[1].views = MaxViews
    /\ unreadable = {}

(***************************************************************************)
(* Properties of the churn rate                                            *)
(***************************************************************************)
\* C24: the churnRate of the customer analytics report is a percentage
\* between 0 and 100 inclusive.
C24_ChurnRateIsPercentage ==
    IsCustomers =>
        /\ NumLeq(JsNum(0), response.churnRate)
        /\ NumLeq(response.churnRate, JsNum(100))

(***************************************************************************)
(* Properties of register and login                                        *)
(***************************************************************************)
Registered(r) == requests[r].op = "register" /\ requests[r].status = 201
Stored(email) == \E i \in 1..Len(users) : users[i].email = email

\* C25: every user for whom register answered success is still in the users
\* store, under any interleaving of register and login requests.
C25_RegisteredUsersKept ==
    \A r \in DOMAIN requests : Registered(r) => \E i \in 1..Len(users) : users[i].id = r

Numbered(r) == requests[r].op = "create" /\ requests[r].doc.orderNumber # NoOrderNumber

\* C27: no two new orders saved on the same day obtain the same order
\* number from the pre-save hook, under any interleaving of the saves.
C27_OrderNumbersUnique ==
    \A r, q \in DOMAIN requests :
        (r # q /\ Numbered(r) /\ Numbered(q))
            => requests[r].doc.orderNumber # requests[q].doc.orderNumber

\* the quantity of product p in the items of the stored orders
RECURSIVE QuantityIn(_, _)
QuantityIn(items, p) ==
    IF items = <<>> THEN 0
    ELSE (IF Head(items).product = p THEN Head(items).quantity ELSE 0)
            + QuantityIn(Tail(items), p)

OrderedQuantity(p) == SumSeq([i \in 1..Len(orderDocs) |-> QuantityIn(orderDocs[i].items, p)])

\* C28: the quantities of the items of an order are added to salesCount at
\* most once, over any sequence of saves and status updates: no salesCount
\* exceeds the quantity of the product in the stored orders.
C28_SalesCountedOnce ==
    \A p \in DOMAIN productDocs : productDocs[p].salesCount <= OrderedQuantity(p)

(***************************************************************************)
(* Properties of the admin product routes                                  *)
(***************************************************************************)
\* C29: every stored product satisfies isInStock = (stock > 0) after any
\* sequence of admin product create, update and bulk-upload operations.
C29_InStockFollowsStock ==
    \A i \in 1..Len(products) :
        /\ HasKey(products[i], "isInStock")
        /\ products[i].isInStock = StockPositive(products[i])

IsBulk == response.kind = "bulk"

\* the uploaded item has the SKU or the case-insensitive name of x
Matches(x, item) ==
    \/ HasKey(x, "sku") /\ HasKey(item, "sku") /\ x.sku = item.sku
    \/ HasKey(x, "name") /\ HasKey(item, "name")
          /\ toLowerCase(x.name) = toLowerCase(item.name)

\* the items that are complete and match no stored product and no complete
\* item before them
NewItems(stored, uploaded) ==
    {k \in 1..Len(uploaded) :
        /\ ~MissingRequired(uploaded[k])
        /\ \A i \in 1..Len(stored) : ~Matches(stored[i], uploaded[k])
        /\ \A n \in 1..(k - 1) :
              MissingRequired(uploaded[n]) \/ ~Matches(uploaded[n], uploaded[k])}

\* C30: a bulk upload modifies an existing product only if an uploaded item
\* has its SKU or its case-insensitive name, appends every item that matches
\* no product as a new product, and answers created + updated + errors =
\* totalProcessed.
C30_BulkUploadFrame ==
    [][response'.kind = "bulk" =>
         /\ \A i \in 1..Len(products) :
               products'[i] # products[i]
                  => \E k \in 1..Len(response'.uploaded) :
                        Matches(products[i], response'.uploaded[k])
         /\ response'.created = Cardinality(NewItems(products, response'.uploaded))
         /\ Len(products') = Len(products) + response'.created
         /\ response'.created + response'.updated + response'.errors
               = response'.totalProcessed]_vars

(***************************************************************************)
(* Properties of the drawn sections of the dashboard                       *)
(***************************************************************************)
\* C21: two dashboard requests answered one after the other on the same
\* snapshot, with the same parameters and the same current time, return the
\* same kpis, trend, segmentation, forecast, budget and topProducts.
C21_DashboardDeterministic ==
    [][(/\ IsDashboard
        /\ response'.kind = "dashboard"
        /\ response'.meta = response.meta
        /\ UNCHANGED <<users, orders, products, now>>)
         => /\ response'.kpis = response.kpis
            /\ response'.trend = response.trend
            /\ response'.segmentation = response.segmentation
            /\ response'.forecast = response.forecast
            /\ response'.budget = response.budget
            /\ response'.topProducts = response.topProducts]_vars

\* the count the dashboard reports for a segment
SegmentCount(name) ==
    LET seg == CHOOSE x \in Range(response.segmentation) : x.name = name
    IN seg.count

\* C22: the High Value, Medium Value and Low Value counts of the dashboard
\* are the sizes of the tiers segmentCustomers computes on the same users
\* and orders.
C22_SegmentationIsSpendRank ==
    IsDashboard =>
        LET tiers == segmentCustomers(users, orders, now)
        IN /\ SegmentCount("High Value") = Len(tiers.highValue)
           /\ SegmentCount("Medium Value") = Len(tiers.mediumValue)
           /\ SegmentCount("Low Value") = Len(tiers.lowValue)

Forecast == response.forecast
LastHistorical == Forecast.historical[Len(Forecast.historical)]
NumLess(x, y) == x.num * y.den < y.num * x.den

\* three points with confidence bounds 1.1 and 0.9 times the point
ThreePointsSymmetric ==
    /\ Len(Forecast.forecast) = 3
    /\ Len(Forecast.confidenceUpper) = 3
    /\ Len(Forecast.confidenceLower) = 3
    /\ \A k \in 1..3 :
          /\ Forecast.confidenceUpper[k] = Mul(Forecast.forecast[k], JsDiv(11, 10))
          /\ Forecast.confidenceLower[k] = Mul(Forecast.forecast[k], JsDiv(9, 10))

\* C23 as stated: three points, lastHistorical <= forecast[k] <
\* lastHistorical * 1.1^k, confidence bounds 1.1 and 0.9 times the point.
C23_ForecastBelowTenPercent ==
    IsDashboard =>
        /\ ThreePointsSymmetric
        /\ \A k \in 1..3 :
              /\ NumLeq(LastHistorical, Forecast.forecast[k])
              /\ NumLess(Forecast.forecast[k],
                         Mul(LastHistorical, Pow(JsDiv(11, 10), k)))

\* C23 amended: three points, lastHistorical <= forecast[k] <=
\* lastHistorical * 1.1^k (the bound is reached when the growth is rounded
\* to 1.1), confidence bounds 1.1 and 0.9 times the point.
C23_ForecastWithinTenPercent ==
    IsDashboard =>
        /\ ThreePointsSymmetric
        /\ \A k \in 1..3 :
              /\ NumLeq(LastHistorical, Forecast.forecast[k])
              /\ NumLeq(Forecast.forecast[k],
                        Mul(LastHistorical, Pow(JsDiv(11, 10), k)))

\* a forecast whose points grow by different factors, one of them above 1
\* and below 1.1, over a varied history
C23_Witness ==
    /\ IsDashboard
    /\ NumLess(JsNum(20000), LastHistorical)
    /\ NumLess(LastHistorical, Forecast.forecast[1])
    /\ NumLess(Forecast.forecast[1], Mul(LastHistorical, JsDiv(11, 10)))
    /\ Forecast.forecast[2] = LastHistorical
    /\ Forecast.forecast[3] = Mul(LastHistorical, Pow(JsDiv(11, 10), 3))

====
